---------------------------- MODULE Spec2Model ----------------------------
(***************************************************************************)
(* A model of the SNMP v1/v2c library: the BER codec (Type, Length, the    *)
(* BER objects and the ArrayBER containers), the Message/PDU layer and the *)
(* SNMP send / receive loop, as compiled with the default configuration    *)
(* SNMP_STREAM 1, SNMP_VECTOR 0, SNMP_CAPACITY 6.  The memory-buffer       *)
(* encoders (SNMP_STREAM 0) are modelled beside the stream encoders.       *)
(*                                                                         *)
(* unsigned int is 32 bits wide.  A 32-bit unsigned quantity x is held as  *)
(* its two's-complement residue (x for x < 2^31, x - 2^32 otherwise), so   *)
(* that a wrapped subtraction is a negative number and "huge" means < 0.   *)
(***************************************************************************)
EXTENDS Integers, Sequences, FiniteSets, TLC

(***************************************************************************)
(* Bit and byte arithmetic                                                 *)
(***************************************************************************)

\* x << 8 on a 32-bit register, as a residue.
Shl8(x) ==
    LET t == x % 16777216
    IN  IF t >= 8388608 THEN (t - 16777216) * 256 ELSE t * 256

\* x << 7 on a 32-bit register, as a residue.
Shl7(x) ==
    LET t == x % 33554432
    IN  IF t >= 16777216 THEN (t - 33554432) * 128 ELSE t * 128

\* x >> (8 * n) on a non-negative value.
RECURSIVE Shr8(_, _)
Shr8(x, n) == IF n = 0 THEN x ELSE Shr8(x \div 256, n - 1)

\* x >> (7 * n) on a non-negative value.
RECURSIVE Shr7(_, _)
Shr7(x, n) == IF n = 0 THEN x ELSE Shr7(x \div 128, n - 1)

\* The conversion to uint8_t done by Stream::write(uint8_t).
Byte(x) == x % 256

\* unsigned comparison "x > k" for a residue x and a small constant k.
UGreater(x, k) == x < 0 \/ x > k

\* Stream::read(): the next byte, or -1 when the packet is exhausted.
Read(s, p) == IF p >= 1 /\ p <= Len(s) THEN s[p] ELSE -1

RECURSIVE Flatten(_)
Flatten(ss) == IF ss = <<>> THEN <<>> ELSE Head(ss) \o Flatten(Tail(ss))

(***************************************************************************)
(* Type values (Type::enum)                                                *)
(***************************************************************************)
TBoolean == 1
TInteger == 2
TOctetString == 4
TNull == 5
TObjectIdentifier == 6
TSequence == 48
TIPAddress == 64
TCounter32 == 65
TGauge32 == 66
TTimeTicks == 67
TOpaque == 68
TCounter64 == 70
TFloat == 72
TNoSuchObject == 128
TNoSuchInstance == 129
TEndOfMIBView == 130
TGetRequest == 160
TGetNextRequest == 161
TGetResponse == 162
TSetRequest == 163
TTrap == 164
TGetBulkRequest == 165
TInformRequest == 166
TSNMPv2Trap == 167
TReport == 168
TOpaqueFloat == 40824

V1 == 0
V2C == 1

\* SNMP_CAPACITY, the capacity of SequenceBER; VarBind is ArrayBER<2>.
SNMP_CAPACITY == 6
VARBIND_CAPACITY == 2

(***************************************************************************)
(* Base::encode7bits (stream)                                              *)
(***************************************************************************)
\* A faulty variant of encode7bits, to show that the tag claim depends on
\* it: the groups are taken 8 bits apart, as setFlagTag takes them.
encode7bitsByteApart(value, size) ==
    [i \in 1..size |->
        (Shr8(value, size - i) % 128) + (IF size - i # 0 THEN 128 ELSE 0)]

encode7bits(value, size) ==
    [i \in 1..size |->
        (Shr7(value, size - i) % 128) + (IF size - i # 0 THEN 128 ELSE 0)]

(***************************************************************************)
(* class Type                                                              *)
(***************************************************************************)

\* The number of bytes of a type value: the while (type >>= 8) loop.
RECURSIVE TypeBytes(_)
TypeBytes(type) == IF type \div 256 = 0 THEN 1 ELSE 1 + TypeBytes(type \div 256)

\* The tag accumulated by setType for a multi-byte type value.
RECURSIVE SetTypeTag(_, _, _)
SetTypeTag(type, n, tag) ==
    IF n = 0 THEN [tag |-> tag, rest |-> type]
    ELSE SetTypeTag(type \div 256, n - 1, (tag * 128) + (type % 128))

\* Type::setType: class, form, tag and size from a type value.
setType(type) ==
    LET size == TypeBytes(type)
        r    == IF size = 1 THEN [tag |-> type % 32, rest |-> type]
                ELSE SetTypeTag(type, size - 1, 0)
    IN  [type |-> type, size |-> size, tag |-> r.tag,
         class |-> ((r.rest \div 64) % 4) * 64,
         form |-> ((r.rest \div 32) % 2) * 32]

\* Type::encode(Stream&).
TypeEncode(T) ==
    IF T.size = 1 THEN << Byte(T.class + T.form + T.tag) >>
    ELSE << T.class + T.form + 31 >> \o encode7bits(T.tag, T.size - 1)

\* Type::decode(Stream&): the long-form loop.  A read of -1 keeps bit 7 of
\* _type set, and the stream stays exhausted: the loop never ends.
RECURSIVE TypeDecodeLong(_, _, _, _)
TypeDecodeLong(s, p, type, size) ==
    LET b == Read(s, p)
    IN  IF b = -1 THEN [type |-> -1, size |-> size + 1, p |-> p, hang |-> TRUE]
        ELSE IF b >= 128 THEN TypeDecodeLong(s, p + 1, Shl8(type) + b, size + 1)
        ELSE [type |-> Shl8(type) + b, size |-> size + 1, p |-> p + 1, hang |-> FALSE]

TypeDecode(s, p) ==
    LET b == Read(s, p)
    IN  IF b = -1 THEN [type |-> -1, size |-> 2, p |-> p, hang |-> TRUE]
        ELSE IF b % 32 = 31 THEN TypeDecodeLong(s, p + 1, b, 1)
        ELSE [type |-> b, size |-> 1, p |-> p + 1, hang |-> FALSE]

\* The number of 7-bit groups of a tag: do { ++_size; } while (tag >>= 7).
RECURSIVE TagGroups(_)
TagGroups(tag) == IF tag \div 128 = 0 THEN 1 ELSE 1 + TagGroups(tag \div 128)

\* The _type register setFlagTag builds for a long-form tag: one byte per
\* group, taken from tag >> (index << 3).
RECURSIVE FlagTagType(_, _, _)
FlagTagType(type, tag, index) ==
    IF index < 0 THEN type
    ELSE FlagTagType(Shl8(type) + (Shr8(tag, index) % 128)
                         + (IF index # 0 THEN 128 ELSE 0),
                     tag, index - 1)

\* Type::setFlagTag, of Type::Type(flag, tag).
setFlagTag(flag, tag) ==
    LET class == ((flag \div 64) % 4) * 64
        form  == ((flag \div 32) % 2) * 32
        size  == IF tag < 31 THEN 1 ELSE 1 + TagGroups(tag)
    IN  [type |-> IF tag < 31 THEN class + form + tag
                  ELSE FlagTagType(class + form + 31, tag, size - 2),
         size |-> size, tag |-> tag, class |-> class, form |-> form]

\* Type::decode(Stream&): _tag after the long-form loop,
\*   _tag <<= 7; _tag |= _type & 0x7F;
\* -1 when the loop never ends.
RECURSIVE TagDecodeLong(_, _, _)
TagDecodeLong(s, p, tag) ==
    LET b == Read(s, p)
    IN  IF b = -1 THEN -1
        ELSE IF b >= 128 THEN TagDecodeLong(s, p + 1, Shl7(tag) + (b % 128))
        ELSE Shl7(tag) + b

\* Type::decode(Stream&): _class, _form, _tag and _size of the Type read at
\* position p.
TypeDecodeFields(s, p) ==
    LET b == Read(s, p) % 256
    IN  [class |-> (b \div 64) * 64, form |-> ((b \div 32) % 2) * 32,
         tag |-> IF b % 32 = 31 THEN TagDecodeLong(s, p + 1, 0) ELSE b % 32,
         size |-> TypeDecode(s, p).size]

(***************************************************************************)
(* class Length                                                            *)
(***************************************************************************)

\* The do { length >>= 8; _size++; } while (length) loop of setLength.
RECURSIVE LengthBytes(_)
LengthBytes(length) ==
    IF length < 0 THEN 4
    ELSE IF length \div 256 = 0 THEN 1 ELSE 1 + LengthBytes(length \div 256)

\* Length::setLength: Length._size, the size the object reports for its
\* length field.
LengthSize(length) == IF UGreater(length, 127) THEN 1 + LengthBytes(length) ELSE 1

\* Length::encode(Stream&).
LengthEncode(length, size) ==
    IF UGreater(length, 127)
    THEN << Byte(128 + size) >> \o [i \in 1..size |-> Byte(Shr8(length, size - i))]
    ELSE << Byte(length) >>

\* Length::decode(Stream&): the loop over the N length bytes,
\*   _length <<= 8; _length += stream.read();
\* A byte read more than three iterations before the last is shifted out of
\* the 32-bit register, so the value is that of the last four iterations.
RECURSIVE LengthDecodeLoop(_, _, _, _)
LengthDecodeLoop(s, p, n, length) ==
    IF n = 0 THEN length
    ELSE LengthDecodeLoop(s, p + 1, n - 1, Shl8(length) + Read(s, p))

LengthDecode(s, p) ==
    LET b == Read(s, p)
        q == IF b = -1 THEN p ELSE p + 1
    IN  IF b = -1 \/ b >= 128
        THEN LET n     == IF b = -1 THEN 127 ELSE b - 128
                 k     == IF n > 4 THEN 4 ELSE n
                 avail == IF Len(s) >= q THEN Len(s) - q + 1 ELSE 0
             IN  [length |-> LengthDecodeLoop(s, q + n - k, k, 0),
                  size |-> n + 1,
                  p |-> q + (IF n < avail THEN n ELSE avail)]
        ELSE [length |-> b, size |-> 1, p |-> q]

(***************************************************************************)
(* class BER and the primitive objects.  A BER object is a record:         *)
(*   k    the C++ class, type the Type value, tsz Type._size,              *)
(*   len  Length._length, lsz Length._size,                                *)
(*   val  the value (a sequence: <<v>> for a number, the bytes of an octet *)
(*        string, the sub-identifiers of an object identifier),            *)
(*   bers the children (ArrayBER._bers[0.._count-1], OpaqueBER._ber),      *)
(*   cap  the capacity U of an ArrayBER<U>.                                *)
(***************************************************************************)
BER(k, type) ==
    [k |-> k, type |-> type, tsz |-> setType(type).size, len |-> 0, lsz |-> 1,
     val |-> <<>>, bers |-> <<>>, cap |-> 0]

\* Length::operator=(unsigned int): setLength.
SetLength(b, n) == [b EXCEPT !.len = n, !.lsz = LengthSize(n)]

\* BER::getSize: _type._size + _length._size + _length.
getSize(b) == b.tsz + b.lsz + b.len

\* BER::setPositive.
RECURSIVE setPositive(_)
setPositive(value) ==
    IF value \div 256 = 0 /\ value % 256 < 128 THEN 1
    ELSE 1 + setPositive(value \div 256)

\* BER::setNegative<int32_t>: true when bits 15..7 of value >> (8 * n) are set.
SignWord(value, n) == (Shr8(value, n) % 65536) \div 128 = 511

\* A faulty variant of setNegative, to show that the minimal encoding claim
\* depends on it: no leading 0xFF byte is left out.
setNegativeWhole(value) == 4

setNegative(value) ==
    IF ~SignWord(value, 2) THEN 4
    ELSE IF ~SignWord(value, 1) THEN 3
    ELSE IF ~SignWord(value, 0) THEN 2
    ELSE 1

\* The payload loop of BER::encodeNumeric.
NumericBytes(value, length) ==
    [i \in 1..length |-> Byte(Shr8(value, length - i))]

\* The null pointer, where a BER* is expected.
nullptr == BER("nullptr", 0)

BooleanBER(value) == [SetLength(BER("Boolean", TBoolean), 1) EXCEPT !.val = <<value>>]

IntegerBER(value) ==
    [SetLength(BER("Integer", TInteger),
               IF value < 0 THEN setNegative(value) ELSE setPositive(value))
        EXCEPT !.val = <<value>>]

OctetStringBER(value) ==
    [SetLength(BER("OctetString", TOctetString), Len(value)) EXCEPT !.val = value]

NullBER(type) == BER("Null", type % 256)

IPAddressBER(value) ==
    [SetLength(BER("IPAddress", TIPAddress), 4) EXCEPT !.val = value]

UIntegerBER(value, type) ==
    [SetLength(BER("UInteger", type % 256), setPositive(value)) EXCEPT !.val = <<value>>]

TimeTicksBER(value) == UIntegerBER(value, TTimeTicks)
Counter32BER(value) == UIntegerBER(value, TCounter32)
Gauge32BER(value) == UIntegerBER(value, TGauge32)
Counter64BER(value) == UIntegerBER(value, TCounter64)

FloatBER(value, type) == [SetLength(BER("Float", type), 4) EXCEPT !.val = <<value>>]
OpaqueFloatBER(value) == FloatBER(value, TOpaqueFloat)

\* The number of 7-bit groups of a sub-identifier:
\* do { value >>= 7; length++; } while (value).
RECURSIVE Groups7(_)
Groups7(value) == IF value \div 128 = 0 THEN 1 ELSE 1 + Groups7(value \div 128)

\* ObjectIdentifierBER::setValue: _length is incremented once for the first
\* two sub-identifiers and once per 7-bit group of each later one, starting
\* from the length the object already has.
RECURSIVE OIDLength(_, _)
OIDLength(subs, i) ==
    IF i > Len(subs) THEN 0
    ELSE (IF i = 1 THEN 0 ELSE IF i = 2 THEN 1 ELSE Groups7(subs[i]))
         + OIDLength(subs, i + 1)

OIDsetValue(b, subs) ==
    [SetLength(b, b.len + OIDLength(subs, 1)) EXCEPT !.val = subs]

ObjectIdentifierBER(subs) == OIDsetValue(BER("ObjectIdentifier", TObjectIdentifier), subs)

\* The payload written by ObjectIdentifierBER::encode(Stream&).
OIDBytes(subs) ==
    Flatten([i \in 1..Len(subs) |->
        IF i = 1 THEN <<>>
        ELSE IF i = 2 THEN << Byte((subs[1] * 40) + subs[2]) >>
        ELSE encode7bits(subs[i], Groups7(subs[i]))])

(***************************************************************************)
(* ArrayBER<U>, SequenceBER, VarBind, VarBindList, OpaqueBER               *)
(***************************************************************************)
ArrayBER(type, cap) == [BER("Array", type % 256) EXCEPT !.cap = cap]

SequenceBER(type) == ArrayBER(type, SNMP_CAPACITY)

\* A faulty variant of add, to show that the capacity claim depends on it:
\* the child is stored without the test of _count against U.
addUnchecked(arr, ber) ==
    [arr EXCEPT !.len = arr.len + ber.tsz + ber.lsz + ber.len,
                !.lsz = LengthSize(arr.len + ber.tsz + ber.lsz + ber.len),
                !.bers = Append(arr.bers, ber)]

\* ArrayBER::add (SNMP_VECTOR 0).
add(arr, ber) ==
    IF Len(arr.bers) < arr.cap
    THEN [SetLength(arr, arr.len + getSize(ber)) EXCEPT !.bers = Append(arr.bers, ber)]
    ELSE arr

\* A faulty variant of remove, to show that the length bookkeeping claim
\* depends on it: the last child leaves the array and _length stays.
removeKeepsLength(arr) ==
    IF Len(arr.bers) > 0
    THEN [arr EXCEPT !.bers = SubSeq(arr.bers, 1, Len(arr.bers) - 1)]
    ELSE arr

\* ArrayBER::remove (SNMP_VECTOR 0): the last child leaves the array.
remove(arr) ==
    IF Len(arr.bers) > 0
    THEN [SetLength(arr, arr.len - getSize(arr.bers[Len(arr.bers)]))
            EXCEPT !.bers = SubSeq(arr.bers, 1, Len(arr.bers) - 1)]
    ELSE arr

VarBind(oid, value) ==
    add(add(ArrayBER(TSequence, VARBIND_CAPACITY), ObjectIdentifierBER(oid)),
        IF value = nullptr THEN NullBER(TNull) ELSE value)

VarBindList == SequenceBER(TSequence)

\* A faulty variant of OpaqueBER, to show that the float transport claim
\* depends on it: _length is not taken from the inner object.
OpaqueBERNoLength(ber) == [BER("Opaque", TOpaque) EXCEPT !.bers = <<ber>>]

OpaqueBER(ber) ==
    [SetLength(BER("Opaque", TOpaque), getSize(ber)) EXCEPT !.bers = <<ber>>]

RECURSIVE SumSizes(_, _)
SumSizes(bers, i) == IF i > Len(bers) THEN 0 ELSE getSize(bers[i]) + SumSizes(bers, i + 1)

\* getSize(true): ArrayBER::getSize and OpaqueBER::getSize recompute the
\* lengths bottom-up; the result is the object with its lengths refreshed.
RECURSIVE Refresh(_)
Refresh(b) ==
    IF b.k = "Array"
    THEN LET kids == [i \in 1..Len(b.bers) |-> Refresh(b.bers[i])]
         IN  [SetLength(b, SumSizes(kids, 1)) EXCEPT !.bers = kids]
    ELSE IF b.k = "Opaque"
    THEN LET kid == Refresh(b.bers[1])
         IN  [SetLength(b, getSize(kid)) EXCEPT !.bers = <<kid>>]
    ELSE b

\* What a pointer that was never initialised, or nullptr used as an object,
\* may stand for when the call returns at all: an object of some size that
\* writes some bytes.
Wild(bytes) ==
    [k |-> "wild", type |-> 0, tsz |-> 0, len |-> Len(bytes), lsz |-> 0,
     val |-> bytes, bers |-> <<>>, cap |-> 0]

WildObjects == {Wild(<<>>)}

(***************************************************************************)
(* encode(Stream&): the bytes written to the stream                        *)
(***************************************************************************)

\* BER::encode(Stream&): the type, then the length.
Header(b) == TypeEncode(setType(b.type)) \o LengthEncode(b.len, b.lsz)

\* A "wild" object stands for what a call through a pointer that is no
\* object does when it returns: it writes some bytes.
RECURSIVE Encode(_)
Encode(b) ==
    IF b.k = "wild" THEN b.val
    ELSE Header(b) \o
         CASE b.k = "Boolean" -> << IF b.val[1] # 0 THEN 255 ELSE 0 >>
           [] b.k \in {"Integer", "UInteger", "Float"} -> NumericBytes(b.val[1], b.len)
           [] b.k \in {"OctetString", "IPAddress"} -> SubSeq(b.val, 1, b.len)
           [] b.k = "Null" -> <<>>
           [] b.k = "ObjectIdentifier" -> OIDBytes(b.val)
           [] b.k \in {"Array", "Opaque"} ->
                 Flatten([i \in 1..Len(b.bers) |-> Encode(b.bers[i])])

(***************************************************************************)
(* decode(Stream&).  A decode returns [b, p, o]: the object, the position  *)
(* of the next unread byte of the packet, and what happened on the way:    *)
(*   hang     a loop of the decoder never ends (the call does not return), *)
(*   unknown  the number of times create() returned nullptr,               *)
(*   readOn   bytes were read after create() had returned nullptr,         *)
(*   wrapped  a child's size exceeded what was left of the declared length *)
(*            (length -= size wrapped below zero),                         *)
(*   under    read() returned -1: the packet ended before the declared end,*)
(*   dropped  the number of decoded objects no container holds: dropped by *)
(*            add() at capacity, or overwritten in OpaqueBER::_ber.        *)
(***************************************************************************)
NoObs ==
    [hang |-> FALSE, unknown |-> 0, readOn |-> FALSE, wrapped |-> FALSE,
     under |-> FALSE, dropped |-> 0]

Avail(s, p) == IF p <= Len(s) THEN Len(s) - p + 1 ELSE 0

\* The bytes readBytes() stores: what is left of the packet, at most n.
Take(s, p, n) ==
    IF n < 0 \/ n > Avail(s, p) THEN SubSeq(s, p, Len(s)) ELSE SubSeq(s, p, p + n - 1)

\* BER::create: the empty object for a decoded type, nullptr when unknown.
create(type) ==
    CASE type = TBoolean -> BooleanBER(0)
      [] type = TInteger -> IntegerBER(0)
      [] type = TOctetString -> OctetStringBER(<<>>)
      [] type \in {TNull, TNoSuchObject, TNoSuchInstance, TEndOfMIBView} -> NullBER(type)
      [] type = TObjectIdentifier -> ObjectIdentifierBER(<<>>)
      [] type = TIPAddress -> IPAddressBER(<<0, 0, 0, 0>>)
      [] type = TCounter32 -> Counter32BER(0)
      [] type = TGauge32 -> Gauge32BER(0)
      [] type = TTimeTicks -> TimeTicksBER(0)
      [] type = TOpaque -> [BER("Opaque", TOpaque) EXCEPT !.bers = <<nullptr>>]
      [] type = TCounter64 -> Counter64BER(0)
      [] type = TFloat -> FloatBER(0, TFloat)
      [] type = TOpaqueFloat -> OpaqueFloatBER(0)
      [] type \in {TSequence, TGetRequest, TGetNextRequest, TGetResponse,
                   TSetRequest, TTrap, TGetBulkRequest, TInformRequest,
                   TSNMPv2Trap, TReport} -> SequenceBER(type)
      [] OTHER -> nullptr

\* The length field read by BER::decode: the object with the decoded
\* Length, the position after it, and whether the packet ended inside it.
DecodeLength(b, s, p) ==
    LET l == LengthDecode(s, p)
    IN  [b |-> [b EXCEPT !.len = l.length, !.lsz = l.size], p |-> l.p,
         under |-> l.size > Avail(s, p)]

\* BER::decodeNumeric<T>: the register after the loop.  With more than
\* three iterations the initial fill is shifted out.
RECURSIVE NumericLoop(_, _, _, _)
NumericLoop(s, p, n, value) ==
    IF n = 0 THEN value
    ELSE NumericLoop(s, p + 1, n - 1,
                     Shl8(value) + (IF Read(s, p) = -1 THEN 255 ELSE Read(s, p)))

\* A faulty variant of decodeNumeric, to show that the round trip claim
\* depends on it: the register starts from 0 whatever the first byte is.
decodeNumericNoFill(signed, length, s, p) ==
    NumericLoop(s, p + length - (IF length > 4 THEN 4 ELSE length),
                IF length > 4 THEN 4 ELSE length, 0)

decodeNumeric(signed, length, s, p) ==
    LET fill == IF signed /\ (Read(s, p) = -1 \/ Read(s, p) >= 128) THEN -1 ELSE 0
        k    == IF length > 4 THEN 4 ELSE length
    IN  NumericLoop(s, p + length - k, k, IF length >= 4 THEN 0 ELSE fill)

\* ObjectIdentifierBER::decode(Stream&): the while (length) loop.  r is
\* [val, p, hang, wrapped, under].
RECURSIVE OIDSubId(_, _, _, _)
OIDSubId(s, p, length, sub) ==
    LET b == Read(s, p)
    IN  IF b = -1 THEN [hang |-> TRUE, sub |-> sub, p |-> p, length |-> length - 1]
        ELSE IF b >= 128 THEN OIDSubId(s, p + 1, length - 1, (sub * 128) + (b % 128))
        ELSE [hang |-> FALSE, sub |-> (sub * 128) + b, p |-> p + 1, length |-> length - 1]

RECURSIVE OIDLoop(_, _, _, _, _)
OIDLoop(s, p, length, index, r) ==
    IF length = 0 THEN [r EXCEPT !.p = p]
    ELSE IF index = 0
    THEN LET b == Read(s, p)
             v == IF b = -1 THEN << 107374182, 15 >> ELSE << b \div 40, b % 40 >>
         IN  OIDLoop(s, IF b = -1 THEN p ELSE p + 1, length - 1, 1,
                     [r EXCEPT !.val = v, !.under = r.under \/ b = -1])
    ELSE LET g == OIDSubId(s, p, length, 0)
         IN  IF g.hang THEN [r EXCEPT !.hang = TRUE, !.under = TRUE, !.p = g.p]
             ELSE OIDLoop(s, g.p, g.length, index + 1,
                          [r EXCEPT !.val = Append(r.val, g.sub),
                                    !.wrapped = r.wrapped \/ g.length < 0])

\* "x || y" on two observation records.
Saw(o, hang, wrapped, under) ==
    [o EXCEPT !.hang = o.hang \/ hang, !.wrapped = o.wrapped \/ wrapped,
              !.under = o.under \/ under]

RECURSIVE DecodeTyped(_, _, _, _)
RECURSIVE DecodeValue(_, _, _)
RECURSIVE ArrayLoop(_, _, _, _, _)
RECURSIVE ArrayCreate(_, _, _, _, _, _)
RECURSIVE ArrayAdd(_, _, _, _)
RECURSIVE OpaqueLoop(_, _, _, _, _)
RECURSIVE OpaqueCreate(_, _, _, _, _, _)
RECURSIVE OpaqueSet(_, _, _, _)

\* ber->decode(stream, Flag::Typed) on the object create() returned: the
\* length, then the value.
DecodeTyped(b0, s, p0, o0) ==
    DecodeValue(DecodeLength(b0, s, p0), s, o0)

\* The decode(Stream&) of each class after BER::decode has read the length:
\* d is the object with its Length, the position, and whether the packet
\* ended inside the length.
DecodeValue(d, s, o0) ==
    LET b == d.b
        p == d.p
        o == Saw(o0, FALSE, FALSE, d.under)
        n == d.b.len
    IN  CASE b.k = "Boolean" ->
               [b |-> [b EXCEPT !.val = << IF Read(s, p) = 0 THEN 0 ELSE 1 >>],
                p |-> IF Avail(s, p) > 0 THEN p + 1 ELSE p,
                o |-> Saw(o, FALSE, FALSE, Avail(s, p) = 0)]
          [] b.k \in {"Integer", "UInteger", "Float"} ->
               \* for (uint8_t index = 0; index < _length; ++index)
               IF UGreater(n, 255) THEN [b |-> b, p |-> p, o |-> Saw(o, TRUE, FALSE, FALSE)]
               ELSE [b |-> [b EXCEPT !.val = << decodeNumeric(b.k = "Integer", n, s, p) >>],
                     p |-> p + (IF n < Avail(s, p) THEN n ELSE Avail(s, p)),
                     o |-> Saw(o, FALSE, FALSE, n > Avail(s, p))]
          [] b.k \in {"OctetString", "IPAddress"} ->
               [b |-> [b EXCEPT !.val = Take(s, p, n)],
                p |-> p + Len(Take(s, p, n)),
                o |-> Saw(o, FALSE, FALSE, UGreater(n, Avail(s, p)))]
          [] b.k = "Null" -> [b |-> b, p |-> p, o |-> o]
          [] b.k = "ObjectIdentifier" ->
               LET r == OIDLoop(s, p, n, 0,
                                [val |-> <<>>, p |-> p, hang |-> FALSE,
                                 wrapped |-> FALSE, under |-> FALSE])
               IN  [b |-> [b EXCEPT !.val = r.val], p |-> r.p,
                    o |-> Saw(o, r.hang, r.wrapped, r.under)]
          [] b.k = "Array" ->
               IF n = 0 THEN [b |-> b, p |-> p, o |-> o]
               ELSE ArrayLoop(SetLength(b, 0), n, s, p, o)
          [] b.k = "Opaque" ->
               IF n = 0 THEN [b |-> b, p |-> p, o |-> o]
               ELSE OpaqueLoop(b, n, s, p, o)

\* The do { ... } while (length) loop of ArrayBER::decode(Stream&): one
\* round starts with type.decode(stream).
ArrayLoop(arr, length, s, p, o) ==
    ArrayCreate(arr, length, s, p, o, TypeDecode(s, p))

\* BER *ber = create(type); if (ber) { ber->decode(stream, Flag::Typed); ... }
\* with t the decoded type.  A nullptr skips the body and the loop reads on.
ArrayCreate(arr, length, s, p, o, t) ==
    LET o1 == [o EXCEPT !.readOn = o.readOn \/ (o.unknown > 0 /\ Avail(s, p) > 0)]
    IN  IF t.hang THEN [b |-> arr, p |-> t.p, o |-> Saw(o1, TRUE, FALSE, TRUE)]
        ELSE IF create(t.type) = nullptr
        THEN ArrayLoop(arr, length, s, t.p, [o1 EXCEPT !.unknown = o1.unknown + 1])
        ELSE ArrayAdd(arr, length, s, DecodeTyped(create(t.type), s, t.p, o1))

\* length -= ber->getSize(); add(ber); and the loop condition, with r the
\* decoded child.
ArrayAdd(arr, length, s, r) ==
    LET left == length - getSize(r.b)
        full == Len(arr.bers) >= arr.cap
        o2   == [Saw(r.o, FALSE, left < 0, FALSE)
                   EXCEPT !.dropped = r.o.dropped + (IF full THEN 1 ELSE 0)]
    IN  IF r.o.hang THEN [b |-> arr, p |-> r.p, o |-> r.o]
        ELSE IF left = 0 THEN [b |-> add(arr, r.b), p |-> r.p, o |-> o2]
        ELSE ArrayLoop(add(arr, r.b), left, s, r.p, o2)

\* The do { ... } while (length) loop of OpaqueBER::decode(Stream&): each
\* round overwrites _ber.
OpaqueLoop(opq, length, s, p, o) ==
    OpaqueCreate(opq, length, s, p, o, TypeDecode(s, p))

\* _ber = create(type); if (_ber) { _ber->decode(stream, Flag::Typed); ... }
OpaqueCreate(opq, length, s, p, o, t) ==
    LET o1  == [o EXCEPT !.readOn = o.readOn \/ (o.unknown > 0 /\ Avail(s, p) > 0)]
        had == opq.bers[1] # nullptr
    IN  IF t.hang THEN [b |-> opq, p |-> t.p, o |-> Saw(o1, TRUE, FALSE, TRUE)]
        ELSE IF create(t.type) = nullptr
        THEN OpaqueLoop([opq EXCEPT !.bers = <<nullptr>>], length, s, t.p,
                        [o1 EXCEPT !.unknown = o1.unknown + 1,
                                   !.dropped = o1.dropped + (IF had THEN 1 ELSE 0)])
        ELSE OpaqueSet(opq, length, s, DecodeTyped(create(t.type), s, t.p, o1))

\* length -= _ber->getSize(); and the loop condition, with r the decoded
\* object.
OpaqueSet(opq, length, s, r) ==
    LET left == length - getSize(r.b)
        had  == opq.bers[1] # nullptr
        o2   == [Saw(r.o, FALSE, left < 0, FALSE)
                   EXCEPT !.dropped = r.o.dropped + (IF had THEN 1 ELSE 0)]
        opq2 == [opq EXCEPT !.bers = << r.b >>]
    IN  IF r.o.hang THEN [b |-> opq2, p |-> r.p, o |-> r.o]
        ELSE IF left = 0 THEN [b |-> opq2, p |-> r.p, o |-> o2]
        ELSE OpaqueLoop(opq2, left, s, r.p, o2)

\* ArrayBER::decode(Stream&, Flag::None) on an existing array: the type is
\* read into _type, then the length, then the children are appended after
\* the _count children the array already has.
Decode(arr, s) ==
    LET t == TypeDecode(s, 1)
    IN  IF t.hang THEN [b |-> arr, p |-> t.p, o |-> Saw(NoObs, TRUE, FALSE, TRUE)]
        ELSE DecodeTyped([arr EXCEPT !.type = t.type, !.tsz = t.size], s, t.p, NoObs)

(***************************************************************************)
(* encode(uint8_t *buffer) (SNMP_STREAM 0): the writes into a memory block.  A    *)
(* block is a sequence of bytes, -1 where nothing has been written yet; an *)
(* encoder returns [mem, p]: the block and the next position to write.     *)
(***************************************************************************)
Block(size) == [i \in 1..size |-> -1]

\* *(buffer + p) = bytes[1], ...: a write of consecutive bytes.
Poke(mem, p, bytes) ==
    LET n == Len(mem)
        k == IF p + Len(bytes) - 1 > n THEN n - p + 1 ELSE Len(bytes)
    IN  IF k <= 0 THEN mem
        ELSE SubSeq(mem, 1, p - 1) \o SubSeq(bytes, 1, k) \o SubSeq(mem, p + k, n)

\* Base::encode7bits(value, buffer, size): buffer[size] down to buffer[1].
encode7bitsBuffer(value, size) ==
    [j \in 1..size |->
        (Shr7(value, size - j) % 128) + (IF size - j # 0 THEN 128 ELSE 0)]

\* Type::encode(uint8_t *buffer).
TypeEncodeBuffer(T, mem, p) ==
    IF T.size = 1
    THEN [mem |-> Poke(mem, p, << Byte(T.class + T.form + T.tag) >>), p |-> p + T.size]
    ELSE [mem |-> Poke(Poke(mem, p, << T.class + T.form + 31 >>), p + 1,
                       encode7bitsBuffer(T.tag, T.size - 1)),
          p |-> p + T.size]

\* Length::encode(uint8_t *buffer): in the long form the _size bytes of the value
\* are written at buffer[_size] down to buffer[1], and the encoder returns
\* buffer + _size.
LengthEncodeBuffer(length, size, mem, p) ==
    IF UGreater(length, 127)
    THEN [mem |-> Poke(Poke(mem, p, << Byte(128 + size) >>), p + 1,
                       [j \in 1..size |-> Byte(Shr8(length, size - j))]),
          p |-> p + size]
    ELSE [mem |-> Poke(mem, p, << Byte(length) >>), p |-> p + size]

\* BER::encode(uint8_t *buffer).
HeaderBuffer(b, mem, p) ==
    LET t == TypeEncodeBuffer(setType(b.type), mem, p)
    IN  LengthEncodeBuffer(b.len, b.lsz, t.mem, t.p)

\* ObjectIdentifierBER::encode(uint8_t *buffer): the pointer rests on the last
\* byte written and the encoder returns ++pointer.
RECURSIVE OIDEncodeBuffer(_, _, _, _)
OIDEncodeBuffer(subs, i, mem, p) ==
    IF i > Len(subs) THEN [mem |-> mem, p |-> p + 1]
    ELSE IF i = 1 THEN OIDEncodeBuffer(subs, 2, mem, p)
    ELSE IF i = 2
    THEN OIDEncodeBuffer(subs, 3, Poke(mem, p, << Byte((subs[1] * 40) + subs[2]) >>), p)
    ELSE OIDEncodeBuffer(subs, i + 1,
                         Poke(mem, p + 1, encode7bitsBuffer(subs[i], Groups7(subs[i]))),
                         p + Groups7(subs[i]))

RECURSIVE EncodeBuffer(_, _, _)
RECURSIVE EncodeBufferAll(_, _, _, _)

EncodeBuffer(b, mem, p) ==
    LET h == HeaderBuffer(b, mem, p)
    IN  CASE b.k = "wild" -> [mem |-> Poke(mem, p, b.val), p |-> p + Len(b.val)]
          [] b.k = "Boolean" ->
               [mem |-> Poke(h.mem, h.p, << IF b.val[1] # 0 THEN 255 ELSE 0 >>), p |-> p + 3]
          [] b.k \in {"Integer", "UInteger", "Float"} ->
               [mem |-> Poke(h.mem, h.p, NumericBytes(b.val[1], b.len)), p |-> h.p + b.len]
          [] b.k \in {"OctetString", "IPAddress"} ->
               [mem |-> Poke(h.mem, h.p, SubSeq(b.val, 1, b.len)), p |-> h.p + b.len]
          [] b.k = "Null" -> h
          [] b.k = "ObjectIdentifier" -> OIDEncodeBuffer(b.val, 1, h.mem, h.p)
          [] b.k \in {"Array", "Opaque"} -> EncodeBufferAll(b.bers, 1, h.mem, h.p)

\* pointer = _bers[index]->encode(pointer), for each child in turn: a child
\* is written before the next one starts.
EncodeBufferAll(bers, i, mem, p) ==
    IF i > Len(bers) THEN [mem |-> mem, p |-> p]
    ELSE LET r == EncodeBuffer(bers[i], mem, p)
         IN  IF r.p >= p THEN EncodeBufferAll(bers, i + 1, r.mem, r.p) ELSE r

(***************************************************************************)
(* class Message: public SequenceBER, private PDU.  A Message is a record: *)
(*   version, community, type          _version, _community, _type,        *)
(*   requestID, status, index          _generic (the members of Bulk share *)
(*                                     the storage of Error: status is also*)
(*                                     _nonRepeaters, index _maxRepetitions)*)
(*   enterprise, agentAddr, genericTrap, specificTrap, timeStamp   _trap,  *)
(*   varBindList, held                 _varBindList and what the pointer   *)
(*                                     is: "own" the list belongs to the   *)
(*                                     Message alone, "null" nullptr,      *)
(*                                     "alias" the list is also a child of *)
(*                                     the pdu, "wild" never initialised,  *)
(*   seq                               the SequenceBER the Message is,     *)
(*   first                             the list the constructor made:      *)
(*                                     "live", "moved" into a pdu by build,*)
(*                                     "deleted" by parse,                 *)
(*   leaked                            objects detached from every owner   *)
(*                                     and never deleted.                  *)
(***************************************************************************)

\* A const char* that is nullptr, and a member of _trap nobody has set.
NullString == << -1 >>
Unset == << -2 >>

\* Message::Message; id is the value rand() returns in Generic().
Message(version, community, type, id) ==
    [version |-> version, community |-> community, type |-> type,
     requestID |-> id, status |-> 0, index |-> 0,
     enterprise |-> Unset, agentAddr |-> Unset, genericTrap |-> 0,
     specificTrap |-> 0, timeStamp |-> 0,
     varBindList |-> VarBindList, held |-> "own", first |-> "live",
     seq |-> SequenceBER(TSequence), leaked |-> 0]

\* Faulty variants of mapErrorStatus, to show that the error claims depend
\* on it: the case Error::NotWritable is missing; the mapping is applied to
\* the wrong version.
mapErrorStatusNoNotWritable(version, status) ==
    IF version = V1
    THEN CASE status \in {10, 9, 7, 8, 12} -> 3
           [] status \in {6, 11, 18, 16} -> 2
           [] status \in {13, 14, 15} -> 5
           [] OTHER -> status
    ELSE status

mapErrorStatusWrongVersion(version, status) ==
    IF version = V2C
    THEN CASE status \in {10, 9, 7, 8, 12} -> 3
           [] status \in {6, 17, 11, 18, 16} -> 2
           [] status \in {13, 14, 15} -> 5
           [] OTHER -> status
    ELSE status

\* Message::mapErrorStatus (RFC 2089 2.1).
mapErrorStatus(version, status) ==
    IF version = V1
    THEN CASE status \in {10, 9, 7, 8, 12} -> 3
           [] status \in {6, 17, 11, 18, 16} -> 2
           [] status \in {13, 14, 15} -> 5
           [] OTHER -> status
    ELSE status

\* Message::setError.
setError(m, status, index) ==
    [m EXCEPT !.status = mapErrorStatus(m.version, status), !.index = index]

\* Message::add(oid, value): add() on the list the Message holds; a VarBind
\* the full list does not take belongs to nobody.
MessageAdd(m, oid, value) ==
    [m EXCEPT !.varBindList = add(m.varBindList, VarBind(oid, value)),
              !.leaked = m.leaked + (IF Len(m.varBindList.bers) < m.varBindList.cap
                                     THEN 0 ELSE 1)]

\* The pdu Message::build fills before it adds the variable bindings;
\* t is millis() / 10.
BuildPDU(m, t) ==
    LET pdu == SequenceBER(m.type)
    IN  CASE m.type = TTrap ->
               add(add(add(add(add(pdu, ObjectIdentifierBER(m.enterprise)),
                                   IPAddressBER(m.agentAddr)),
                               IntegerBER(m.genericTrap)),
                           IntegerBER(m.specificTrap)),
                   TimeTicksBER(t))
          [] OTHER ->
               add(add(add(pdu, IntegerBER(m.requestID)),
                           IntegerBER(m.status)),
                   IntegerBER(m.index))

\* Message::build with the list pdu->add() is given.
BuildWith(m, t, list) ==
    LET pdu == add(BuildPDU(m, t), list)
    IN  [m EXCEPT !.seq = add(add(add(m.seq, IntegerBER(m.version)),
                                  OctetStringBER(m.community)),
                              pdu),
                  !.varBindList = nullptr, !.held = "null",
                  !.first = IF m.first = "live" THEN "moved" ELSE m.first]

\* Message::build: the outcomes.  Once built, _varBindList is nullptr and
\* pdu->add(_varBindList) calls getSize() through it: the call crashes, or
\* goes on with whatever the null pointer stands for.
build(m, t) ==
    IF m.held = "own" THEN {[fault |-> FALSE, m |-> BuildWith(m, t, m.varBindList)]}
    ELSE {[fault |-> TRUE, m |-> m]}
         \cup {[fault |-> FALSE, m |-> BuildWith(m, t, w)] : w \in WildObjects}

\* The classes Message::parse casts the first children of the pdu to.
PDUKinds(type) ==
    IF type = TTrap
    THEN << "ObjectIdentifier", "IPAddress", "Integer", "Integer", "UInteger" >>
    ELSE << "Integer", "Integer", "Integer" >>

\* Every pointer Message::parse calls through is an object of the class it
\* is cast to: operator[] checks no index and static_cast checks no class.
parseDefined(m) ==
    LET kids == m.seq.bers
    IN  /\ Len(kids) >= 3
        /\ kids[1].k = "Integer" /\ kids[2].k = "OctetString" /\ kids[3].k = "Array"
        /\ LET ks == PDUKinds(kids[3].type % 256)
           IN  /\ Len(kids[3].bers) >= Len(ks)
               /\ \A i \in 1..Len(ks) : kids[3].bers[i].k = ks[i]

\* A faulty variant of Narrow, to show that the narrowing claim depends on
\* it: the field keeps the 32 bits of the value.
NarrowNot(value) == value

\* The conversion of IntegerBER::getValue() to the uint8_t field it is
\* assigned to.
Narrow(value) == value % 256

\* Message::parse when every call is defined.  The list is pdu[3] (pdu[5]
\* of a Trap), a slot nothing was stored in when the pdu is shorter; then
\* remove() detaches the last child of the pdu, whichever it is.
parse(m) ==
    LET kids == m.seq.bers
        pdu  == kids[3]
        type == pdu.type % 256
        idx  == IF type = TTrap THEN 5 ELSE 3
        n    == Len(pdu.bers)
        pdu1 == remove(pdu)
        m1   == [m EXCEPT !.version = kids[1].val[1] % 256,
                          !.community = kids[2].val,
                          !.type = type]
        m2   == IF type = TTrap
                THEN [m1 EXCEPT !.enterprise = pdu.bers[1].val,
                                !.agentAddr = pdu.bers[2].val,
                                !.genericTrap = Narrow(pdu.bers[3].val[1]),
                                !.specificTrap = Narrow(pdu.bers[4].val[1]),
                                !.timeStamp = pdu.bers[5].val[1]]
                ELSE [m1 EXCEPT !.requestID = pdu.bers[1].val[1],
                                !.status = Narrow(pdu.bers[2].val[1]),
                                !.index = Narrow(pdu.bers[3].val[1])]
    IN  [m2 EXCEPT !.first = "deleted",
                   !.varBindList = IF idx < n THEN pdu.bers[idx + 1] ELSE Wild(<<>>),
                   !.held = IF idx >= n THEN "wild"
                            ELSE IF idx = n - 1 THEN "own" ELSE "alias",
                   !.seq = [m.seq EXCEPT !.bers = [kids EXCEPT ![3] = pdu1]],
                   !.leaked = m.leaked + (IF idx # n - 1 THEN 1 ELSE 0)]

\* What user code can read from a Message: the fields of its pdu type.
Fields(m) ==
    IF m.type = TTrap
    THEN << m.version, m.community, m.type, m.enterprise, m.agentAddr,
            m.genericTrap, m.specificTrap >>
    ELSE << m.version, m.community, m.type, m.requestID, m.status, m.index >>

\* The value of a BER object, without the bookkeeping of its encoding.
RECURSIVE ValueOf(_)
ValueOf(b) ==
    [type |-> b.type, val |-> b.val,
     bers |-> [i \in 1..Len(b.bers) |-> ValueOf(b.bers[i])]]

\* VarBind::getName and VarBind::getValue of each binding of a list.
Bindings(list) ==
    [i \in 1..Len(list.bers) |->
        IF list.bers[i].k = "Array" /\ Len(list.bers[i].bers) = 2
        THEN << list.bers[i].bers[1].val, ValueOf(list.bers[i].bers[2]) >>
        ELSE << "no VarBind" >>]

(***************************************************************************)
(* The program: a sketch that owns one SNMP object, makes a Message, sends *)
(* it, and calls loop(); the network, which hands datagrams to the socket. *)
(***************************************************************************)

\* Bounds of the model.
MaxBinds == 2
MaxBuilds == 2
MaxPackets == 1
MaxNow == 1
ShortPayload == 120
LongPayload == 128

VARIABLES
    pc,        \* "run", "hung" (a call never returns) or "fault" (a crash)
    snmp,      \* SNMP::_udp and SNMP::_onMessage are set
    msg,       \* the Message of the sketch
    made,      \* the sketch has constructed msg
    orig,      \* msg as it was when it was first built
    asked,     \* the arguments of the last Message::setError call on msg
    added,     \* the values of the Message::add calls on msg, in order
    builds,    \* the number of Message::build() calls on msg
    builtAt,   \* millis() / 10 at the last Message::build() call on msg
    size,      \* what Message::getSize last returned
    sent,      \* the datagrams send() wrote, SNMP_STREAM 1
    sentBuffer, \* the datagrams send() writes for them with SNMP_STREAM 0
    inbox,     \* the datagram parsePacket() will find
    packets,   \* the number of datagrams that have arrived
    rx,        \* the last loop() call that found a datagram
    lng,       \* a Length object
    ber,       \* a BER object of user code
    measured,  \* what ber.getSize(true) returned
    out,       \* the bytes the last encode of lng or ber wrote
    typ,       \* a Type object of user code: the arguments it was made
               \* from, the object, the bytes its encode wrote, and the
               \* Type a decode of those bytes filled
    num,       \* a numeric object of user code: its value, the bytes its
               \* encode wrote, and the object a decode of those bytes filled
    oid,       \* an ObjectIdentifierBER of user code: the strings it was
               \* given, the object, the bytes its encode wrote, and the
               \* string of the object a decode of those bytes filled
    array,     \* an ArrayBER of a class that may call add and remove: the
               \* object, the last call, its child, and the object before
    wire       \* the pdu type and the INTEGER fields a peer put in the
               \* datagram that arrived

vars ==
    << pc, snmp, msg, made, orig, asked, added, builds, builtAt, size, sent,
       sentBuffer, inbox, packets, rx, lng, ber, measured, out, typ, num,
       oid, array, wire >>

sketchVars ==
    << msg, made, orig, asked, added, builds, builtAt, size, sent, sentBuffer >>
objectVars == << num, oid, array, wire >>
codecVars == << lng, ber, measured, out, typ, objectVars >>

sysName == << 1, 3, 6, 1, 2, 1, 1, 5, 0 >>
enterpriseOID == << 1, 3, 6, 1, 4, 1, 54858 >>
public == << 112, 117, 98, 108, 105, 99 >>

\* The values millis() / 10 returns.
Times == 0..MaxNow

\* The values rand() returns in Generic().
RandomIDs == {41}

\* The values a sketch binds: nullptr stands for the default argument of
\* Message::add.
Payload(n) == [i \in 1..n |-> 65]
Values ==
    {nullptr, IntegerBER(-200), OctetStringBER(Payload(ShortPayload)),
     OctetStringBER(Payload(LongPayload))}

\* Length::Length.
NoLength == [length |-> 0, size |-> 1]

\* No Type yet.
NoType == [class |-> -1, form |-> -1, tag |-> -1, size |-> 0]

NoTyp == [flag |-> 0, number |-> 0, T |-> NoType, bytes |-> <<>>, back |-> NoType]

\* No numeric object yet.
NoNum ==
    [k |-> "none", type |-> 0, value |-> 0, reg |-> <<>>, length |-> 0,
     bytes |-> <<>>, decoded |-> FALSE, back |-> 0, backReg |-> <<>>,
     other |-> nullptr, obs |-> NoObs]

\* No ObjectIdentifierBER yet.
NoOID ==
    [texts |-> <<>>, b |-> nullptr, bytes |-> <<>>, decoded |-> FALSE,
     hang |-> FALSE, back |-> <<>>]

\* No ArrayBER yet.
NoArr == [b |-> nullptr, last |-> "none", child |-> nullptr, before |-> nullptr]

\* No datagram with chosen fields yet.
NoWire == [type |-> 0, a |-> 0, b |-> 0, c |-> 0]

NoPacket == [pkt |-> <<>>, echo |-> FALSE]

\* No call of Message::setError yet.
NoCall == [status |-> -1, index |-> -1]

NoRx ==
    [ran |-> FALSE, echo |-> FALSE, pkt |-> <<>>, hang |-> FALSE, fault |-> FALSE,
     handled |-> FALSE, defined |-> TRUE, obs |-> NoObs, end |-> 0,
     m |-> Message(V1, NullString, TGetRequest, 0), deleted |-> "no"]

Init ==
    /\ pc = "run"
    /\ snmp = [udp |-> FALSE, onMessage |-> FALSE]
    /\ msg = Message(V1, NullString, TGetRequest, 0)
    /\ made = FALSE
    /\ orig = Message(V1, NullString, TGetRequest, 0)
    /\ asked = NoCall
    /\ added = <<>>
    /\ builds = 0
    /\ builtAt = -1
    /\ size = -1
    /\ sent = <<>>
    /\ sentBuffer = <<>>
    /\ inbox = NoPacket
    /\ packets = 0
    /\ rx = NoRx
    /\ lng = NoLength
    /\ ber = nullptr
    /\ measured = -1
    /\ out = <<>>
    /\ typ = NoTyp
    /\ num = NoNum
    /\ oid = NoOID
    /\ array = NoArr
    /\ wire = NoWire

\* SNMP::begin.
Begin ==
    /\ pc = "run" /\ ~snmp.udp
    /\ snmp' = [snmp EXCEPT !.udp = TRUE]
    /\ UNCHANGED << pc, sketchVars, inbox, packets, rx, codecVars >>

\* SNMP::onMessage.
OnMessage ==
    /\ pc = "run" /\ ~snmp.onMessage /\ ~made /\ packets = 0
    /\ snmp' = [snmp EXCEPT !.onMessage = TRUE]
    /\ UNCHANGED << pc, sketchVars, inbox, packets, rx, codecVars >>

\* new Message(version, community, type).
NewMessage ==
    /\ pc = "run" /\ ~made /\ packets = 0 /\ snmp.udp /\ snmp.onMessage
    /\ \E version \in {V1, V2C}, community \in {public, <<>>},
          type \in {TGetRequest, TGetBulkRequest, TTrap}, id \in RandomIDs :
          msg' = Message(version, community, type, id)
    /\ made' = TRUE
    /\ UNCHANGED << pc, snmp, orig, asked, added, builds, builtAt, size, sent,
                    sentBuffer, inbox, packets, rx, codecVars >>

\* A setter of the sketch's Message, called before the Message is built;
\* a is what the sketch last passed to setError, h what it has passed to
\* add so far.
SetAll(m, a, h) ==
    /\ pc = "run" /\ made /\ builds = 0
    /\ msg' = m
    /\ asked' = a
    /\ added' = h
    /\ UNCHANGED << pc, snmp, made, orig, builds, builtAt, size, sent, sentBuffer,
                    inbox, packets, rx, codecVars >>

SetWith(m, a) == SetAll(m, a, added)

Set(m) == SetWith(m, asked)

\* Message::setRequestID.
SetRequestID ==
    /\ msg.type # TTrap
    /\ \E id \in {-200} : Set([msg EXCEPT !.requestID = id])

\* Message::setError.
SetError ==
    /\ msg.type \notin {TTrap, TGetBulkRequest}
    /\ \E status \in {10}, index \in {1} :
          SetWith(setError(msg, status, index), [status |-> status, index |-> index])

\* Message::setNonRepeaters and Message::setMaxRepetitions.
SetNonRepeaters ==
    /\ msg.type = TGetBulkRequest
    /\ \E n \in {1} : Set([msg EXCEPT !.status = n])

SetMaxRepetitions ==
    /\ msg.type = TGetBulkRequest
    /\ \E n \in {10} : Set([msg EXCEPT !.index = n])

\* Message::setEnterprise, Message::setAgentAddress, Message::setTrap.
SetEnterprise ==
    /\ msg.type = TTrap
    /\ Set([msg EXCEPT !.enterprise = enterpriseOID])

SetAgentAddress ==
    /\ msg.type = TTrap
    /\ Set([msg EXCEPT !.agentAddr = << 192, 168, 1, 2 >>])

SetTrap ==
    /\ msg.type = TTrap
    /\ \E generic \in {6}, specific \in {1} :
          Set([msg EXCEPT !.genericTrap = generic, !.specificTrap = specific])

\* Message::add(oid, value).
AddVarBind ==
    /\ msg.held = "own" /\ Len(msg.varBindList.bers) < MaxBinds
    /\ \E value \in Values :
          SetAll(MessageAdd(msg, sysName, value), asked, Append(added, value))

\* The datagram SNMP::send writes with SNMP_STREAM 0 for a built Message:
\* getSize(true), malloc, encode(buffer), write(buffer, length).
BufferDatagram(m) ==
    LET tree   == Refresh(m.seq)
        length == getSize(tree)
    IN  EncodeBuffer(tree, Block(length), 1).mem

\* SNMP::send; t is what millis() / 10 returns in build().  A Trap is sent
\* once the sketch has set its enterprise and agent address.
Send ==
    /\ pc = "run" /\ made /\ snmp.udp /\ builds < MaxBuilds
    /\ msg.type = TTrap => msg.enterprise # Unset /\ msg.agentAddr # Unset
    /\ \E t \in Times : \E r \in build(msg, t) :
          /\ msg' = r.m
          /\ pc' = IF r.fault THEN "fault" ELSE "run"
          /\ sent' = IF r.fault THEN sent ELSE Append(sent, Encode(r.m.seq))
          /\ sentBuffer' = IF r.fault THEN sentBuffer
                           ELSE Append(sentBuffer, BufferDatagram(r.m))
          /\ builtAt' = t
    /\ orig' = IF builds = 0 THEN msg ELSE orig
    /\ builds' = builds + 1
    /\ UNCHANGED << snmp, made, asked, added, size, inbox, packets, rx, codecVars >>

\* Message::getSize(refresh), called by the sketch before it sends.
GetSize ==
    /\ pc = "run" /\ made /\ builds = 0
    /\ msg.type = TTrap => msg.enterprise # Unset /\ msg.agentAddr # Unset
    /\ \E t \in Times : \E r \in build(msg, t), refresh \in BOOLEAN :
          LET tree == IF refresh THEN Refresh(r.m.seq) ELSE r.m.seq
          IN  /\ msg' = [r.m EXCEPT !.seq = IF r.fault THEN r.m.seq ELSE tree]
              /\ pc' = IF r.fault THEN "fault" ELSE "run"
              /\ size' = IF r.fault THEN size ELSE getSize(tree)
              /\ builtAt' = t
    /\ orig' = IF builds = 0 THEN msg ELSE orig
    /\ builds' = builds + 1
    /\ UNCHANGED << snmp, made, asked, added, sent, sentBuffer, inbox, packets, rx,
                    codecVars >>

(***************************************************************************)
(* The network                                                             *)
(***************************************************************************)

\* A message with the given children of its pdu, as a peer builds it.
RECURSIVE AddAll(_, _, _)
AddAll(arr, kids, i) ==
    IF i > Len(kids) THEN arr ELSE AddAll(add(arr, kids[i]), kids, i + 1)

Request(kids) ==
    AddAll(SequenceBER(TSequence),
           << IntegerBER(V2C), OctetStringBER(public),
              AddAll(SequenceBER(TGetRequest), kids, 1) >>, 1)

OneBinding(value) == add(VarBindList, VarBind(sysName, value))

WellFormed ==
    Encode(Request(<< IntegerBER(7), IntegerBER(0), IntegerBER(0),
                      OneBinding(IntegerBER(5)) >>))

\* The position of the first byte inside the pdu of WellFormed.
InPDU ==
    2 + CHOOSE i \in 1..Len(WellFormed) :
            /\ WellFormed[i] = TGetRequest
            /\ \A j \in 1..(i - 1) : WellFormed[j] # TGetRequest

\* A tag no variant has: 0x0D.
UnknownTag == 13

\* Datagrams of a peer that does not follow the protocol.
Truncated == SubSeq(WellFormed, 1, Len(WellFormed) - 3)

\* An unknown tag in the pdu that the declared lengths do not count.
UnknownUncounted ==
    SubSeq(WellFormed, 1, InPDU - 1) \o << UnknownTag >>
        \o SubSeq(WellFormed, InPDU, Len(WellFormed))

\* A TLV with an unknown tag at the end of the list, counted in every
\* enclosing length: the list is << 0x0D 0x01 0x00 >>.
UnknownCounted ==
    LET w == Encode(Request(<< IntegerBER(7), IntegerBER(0), IntegerBER(0),
                               add(VarBindList, BooleanBER(0)) >>))
    IN  SubSeq(w, 1, Len(w) - 3) \o << UnknownTag, 1, 0 >>

\* An unknown tag inside an Opaque that the declared lengths do not count.
UnknownInOpaque ==
    LET w == Encode(Request(<< IntegerBER(7), IntegerBER(0), IntegerBER(0),
                               OneBinding(OpaqueBER(NullBER(TNull))) >>))
    IN  SubSeq(w, 1, Len(w) - 2) \o << UnknownTag, TNull, 0 >>

FiveChildren ==
    Encode(Request(<< IntegerBER(7), IntegerBER(0), IntegerBER(0),
                      OneBinding(IntegerBER(5)), NullBER(TNull) >>))

ThreeChildren ==
    Encode(Request(<< IntegerBER(7), IntegerBER(0), IntegerBER(0) >>))

UnterminatedTag == << TSequence, 3, 31, 129, 130 >>

Overshoot == << TSequence, 3, TOctetString, 5, 97, 98, 99, 100, 101 >>

\* A message that is its version alone.
VersionOnly == << TSequence, 3, TInteger, 1, V2C >>

\* A GetRequest of a peer whose list holds one binding more than a
\* SequenceBER of this build takes: six Null bindings and a seventh of 7.
SevenBindings ==
    Encode(Request(<< IntegerBER(7), IntegerBER(0), IntegerBER(0),
                      AddAll(ArrayBER(TSequence, SNMP_CAPACITY + 1),
                             [i \in 1..(SNMP_CAPACITY + 1) |->
                                 VarBind(sysName, IF i <= SNMP_CAPACITY THEN nullptr
                                                  ELSE IntegerBER(7))], 1) >>))

\* The same datagram followed by the bytes the pdu still asks for once the
\* list has reported the size of the six bindings it kept: an OctetString
\* as large as the seventh binding.
SevenBindingsPadded ==
    SevenBindings
        \o Encode(OctetStringBER(Payload(getSize(VarBind(sysName, IntegerBER(7))) - 2)))

\* The datagrams that carry more bindings than a list takes.
OverCapacity == {SevenBindings, SevenBindingsPadded}

\* A GetRequest whose binding value is an OctetString with the length byte
\* 0x80, the indefinite form: 04 80 in place of 04 00.
IndefiniteLength ==
    LET w == Encode(Request(<< IntegerBER(7), IntegerBER(0), IntegerBER(0),
                               OneBinding(OctetStringBER(<<>>)) >>))
    IN  SubSeq(w, 1, Len(w) - 1) \o << 128 >>

\* A GetRequest whose one binding is a SEQUENCE that holds an Integer and
\* nothing else: no name, and no second child.
ValueOnly ==
    Encode(Request(<< IntegerBER(7), IntegerBER(0), IntegerBER(0),
                      add(VarBindList,
                          add(ArrayBER(TSequence, VARBIND_CAPACITY), IntegerBER(5))) >>))

\* The well-formed GetRequest of a peer that writes the length of the
\* binding in the long form, 30 81 0D in place of 30 0D; the lengths of the
\* list, of the pdu and of the message count the byte more.
LongFormAt(w, pdu, at) ==
    [i \in 1..(Len(w) + 1) |->
        IF i \in {2, pdu - 1, at - 1} THEN w[i] + 1
        ELSE IF i <= at THEN w[i]
        ELSE IF i = at + 1 THEN 129
        ELSE w[i - 1]]

LongFormBinding == LongFormAt(WellFormed, InPDU, InPDU + 11)

Datagrams ==
    {WellFormed, Truncated, UnknownUncounted, UnknownCounted, UnknownInOpaque,
     FiveChildren, ThreeChildren, VersionOnly, UnterminatedTag, Overshoot,
     IndefiniteLength, ValueOnly, LongFormBinding}
    \cup OverCapacity

\* The datagram the sketch sent comes back from the peer.
Deliver ==
    /\ pc = "run" /\ packets < MaxPackets /\ inbox = NoPacket /\ sent # <<>>
    /\ inbox' = [pkt |-> sent[Len(sent)], echo |-> TRUE]
    /\ packets' = packets + 1
    /\ UNCHANGED << pc, snmp, sketchVars, rx, codecVars >>

\* A datagram of a peer arrives.
Inject ==
    /\ pc = "run" /\ packets < MaxPackets /\ inbox = NoPacket /\ ~made
    /\ \E d \in Datagrams : inbox' = [pkt |-> d, echo |-> FALSE]
    /\ packets' = packets + 1
    /\ UNCHANGED << pc, snmp, sketchVars, rx, codecVars >>

(***************************************************************************)
(* SNMP::loop                                                              *)
(***************************************************************************)

\* message->parse(): the outcomes.  Where a call goes through a pointer that
\* is no object of the class, the call crashes, or returns with a Message
\* whose list is whatever the slot held.
Parses(m) ==
    IF parseDefined(m) THEN {[fault |-> FALSE, defined |-> TRUE, m |-> parse(m)]}
    ELSE {[fault |-> TRUE, defined |-> FALSE, m |-> m],
          [fault |-> FALSE, defined |-> FALSE,
           m |-> [m EXCEPT !.first = "deleted", !.varBindList = Wild(<<>>),
                           !.held = "wild"]]}

\* delete message: ~Message deletes _varBindList, then ~ArrayBER deletes the
\* children, the pdu and what it holds among them.
Deleted(m) ==
    CASE m.held = "alias" -> "twice"
      [] m.held = "wild" -> "wild"
      [] OTHER -> "once"

\* SNMP::loop (SNMP_STREAM 1) when parsePacket() finds a datagram: a new
\* Message, parse(*_udp), the handler, delete.  A decode that never returns
\* leaves the program inside loop().
Loop ==
    /\ pc = "run" /\ snmp.udp /\ inbox # NoPacket
    /\ \E id \in RandomIDs, d \in {Decode(SequenceBER(TSequence), inbox.pkt)} :
          LET target == Message(V1, NullString, TGetRequest, id)
              seen   == [NoRx EXCEPT !.ran = TRUE, !.echo = inbox.echo,
                                     !.pkt = inbox.pkt,
                                     !.obs = d.o, !.end = d.p, !.m = target]
          IN  IF d.o.hang
              THEN /\ rx' = [seen EXCEPT !.hang = TRUE]
                   /\ pc' = "hung"
              ELSE \E r \in Parses([target EXCEPT !.seq = d.b]) :
                      IF r.fault \/ ~snmp.onMessage
                      THEN /\ rx' = [seen EXCEPT !.fault = TRUE, !.defined = r.defined,
                                                 !.m = r.m]
                           /\ pc' = "fault"
                      ELSE /\ rx' = [seen EXCEPT !.handled = TRUE, !.defined = r.defined,
                                                 !.m = r.m, !.deleted = Deleted(r.m)]
                           /\ pc' \in IF Deleted(r.m) = "once" THEN {"run"}
                                      ELSE {"run", "fault"}
    /\ inbox' = NoPacket
    /\ UNCHANGED << snmp, sketchVars, packets, codecVars >>

Next ==
    \/ Begin
    \/ OnMessage
    \/ NewMessage
    \/ SetRequestID
    \/ SetError
    \/ SetNonRepeaters
    \/ SetMaxRepetitions
    \/ SetEnterprise
    \/ SetAgentAddress
    \/ SetTrap
    \/ AddVarBind
    \/ GetSize
    \/ Send
    \/ Deliver
    \/ Inject
    \/ Loop

Spec == Init /\ [][Next]_vars

(***************************************************************************)
(* User code that works on one Length and on one BER object: it sets a     *)
(* length and encodes it; it makes an object, wraps it in containers, asks *)
(* for its size and encodes it.                                            *)
(***************************************************************************)
MaxLength == 300

Lengths == 0..MaxLength \cup {65535, 65536, 16777215, 16777216}

Primitives ==
    {BooleanBER(1), IntegerBER(0), IntegerBER(127), IntegerBER(128),
     IntegerBER(-129), IntegerBER(2147483647), NullBER(TNull),
     NullBER(TNoSuchObject), ObjectIdentifierBER(sysName),
     ObjectIdentifierBER(enterpriseOID), IPAddressBER(<< 192, 168, 1, 2 >>),
     Counter32BER(300), Gauge32BER(0), TimeTicksBER(65536),
     OpaqueFloatBER(1103935046), OctetStringBER(<<>>),
     OctetStringBER(Payload(1)), OctetStringBER(Payload(LongPayload - 1)),
     OctetStringBER(Payload(LongPayload)), OctetStringBER(Payload(2 * LongPayload))}

\* Length::operator=(unsigned int).
AssignLength ==
    /\ \E length \in Lengths : lng' = [length |-> length, size |-> LengthSize(length)]
    /\ ber' = nullptr /\ measured' = -1 /\ out' = <<>>
    /\ UNCHANGED << pc, snmp, sketchVars, inbox, packets, rx, objectVars, typ >>

\* Length::encode(Stream&).
EncodeLength ==
    /\ ber = nullptr /\ out = <<>>
    /\ out' = LengthEncode(lng.length, lng.size)
    /\ UNCHANGED << pc, snmp, sketchVars, inbox, packets, rx, objectVars, typ, lng, ber, measured >>

\* new ...BER(value).
NewBER ==
    /\ \E b \in Primitives : ber' = b
    /\ lng' = NoLength /\ measured' = -1 /\ out' = <<>>
    /\ UNCHANGED << pc, snmp, sketchVars, inbox, packets, rx, objectVars, typ >>

\* The object becomes the child of a container user code makes.
Wrap(container) ==
    /\ ber # nullptr
    /\ ber' = container
    /\ measured' = -1 /\ out' = <<>>
    /\ UNCHANGED << pc, snmp, sketchVars, inbox, packets, rx, objectVars, typ, lng >>

\* new OpaqueBER(ber).
WrapOpaque == ber.k \notin {"Array", "Opaque"} /\ Wrap(OpaqueBER(ber))

\* new VarBind(oid, ber).
WrapVarBind == ber.k # "Array" /\ Wrap(VarBind(sysName, ber))

\* VarBindList::add of the VarBind.
WrapList == ber.k = "Array" /\ ber.cap = VARBIND_CAPACITY /\ Wrap(add(VarBindList, ber))

\* ber->getSize(true).
Measure ==
    /\ ber # nullptr /\ measured = -1
    /\ ber' = Refresh(ber)
    /\ measured' = getSize(Refresh(ber))
    /\ UNCHANGED << pc, snmp, sketchVars, inbox, packets, rx, objectVars, typ, lng, out >>

\* ber->encode(stream), after getSize(true).
EncodeBER ==
    /\ ber # nullptr /\ measured # -1 /\ out = <<>>
    /\ out' = Encode(ber)
    /\ UNCHANGED << pc, snmp, sketchVars, inbox, packets, rx, objectVars, typ, lng, ber, measured >>

NextCodec ==
    \/ AssignLength
    \/ EncodeLength
    \/ NewBER
    \/ WrapOpaque
    \/ WrapVarBind
    \/ WrapList
    \/ Measure
    \/ EncodeBER

SpecCodec == Init /\ [][NextCodec]_vars

(***************************************************************************)
(* Message::parse(Stream&) applied to a Message that holds state: the      *)
(* Message user code made, with the bindings it added, or the Message an   *)
(* earlier parse filled.  SNMP::loop itself parses into a new Message.     *)
(***************************************************************************)
MaxParses == 2

AnotherWellFormed ==
    Encode(Request(<< IntegerBER(8), IntegerBER(2), IntegerBER(1),
                      OneBinding(NullBER(TNoSuchObject)) >>))

\* message->parse(stream): decode(stream), then parse().
ParseInto ==
    /\ pc = "run" /\ made /\ builds = 0 /\ packets < MaxParses
    /\ \E d \in {WellFormed, AnotherWellFormed} : \E t \in {Decode(msg.seq, d)} :
          LET seen == [NoRx EXCEPT !.ran = TRUE, !.pkt = d, !.obs = t.o,
                                   !.end = t.p, !.m = msg]
          IN  IF t.o.hang
              THEN /\ msg' = [msg EXCEPT !.seq = t.b]
                   /\ rx' = [seen EXCEPT !.hang = TRUE]
                   /\ pc' = "hung"
              ELSE \E r \in Parses([msg EXCEPT !.seq = t.b]) :
                      /\ msg' = r.m
                      /\ rx' = [seen EXCEPT !.defined = r.defined, !.fault = r.fault,
                                             !.m = r.m]
                      /\ pc' = IF r.fault THEN "fault" ELSE "run"
    /\ packets' = packets + 1
    /\ UNCHANGED << snmp, made, orig, asked, added, builds, builtAt, size, sent,
                    sentBuffer, inbox, codecVars >>

NextReuse ==
    \/ Begin
    \/ OnMessage
    \/ NewMessage
    \/ SetRequestID
    \/ AddVarBind
    \/ ParseInto

SpecReuse == Init /\ [][NextReuse]_vars

(***************************************************************************)
(* A sketch that reports errors: it makes a Message and calls setError on  *)
(* it, any number of times, with any status code.                          *)
(***************************************************************************)

\* Error::enum.
NoError == 0
TooBig == 1
NoSuchName == 2
BadValue == 3
ReadOnly == 4
GenErr == 5
NoAccess == 6
WrongType == 7
WrongLength == 8
WrongEncoding == 9
WrongValue == 10
NoCreation == 11
InconsistentValue == 12
ResourceUnavailable == 13
CommitFailed == 14
UndoFailed == 15
AuthorizationError == 16
NotWritable == 17
InconsistentName == 18

\* The largest error index a sketch passes.
MaxIndex == 2

\* The 19 codes of the table.
ErrorTable == NoError..InconsistentName

\* The status argument is a uint8_t: the table, and codes outside of it.
StatusCodes == ErrorTable \cup {InconsistentName + 1, 255}

\* Message::setError with any status code.
SetErrorCode ==
    /\ msg.type \notin {TTrap, TGetBulkRequest}
    /\ \E status \in StatusCodes, index \in 0..MaxIndex :
          SetWith(setError(msg, status, index), [status |-> status, index |-> index])

NextError ==
    \/ Begin
    \/ OnMessage
    \/ NewMessage
    \/ SetErrorCode

SpecError == Init /\ [][NextError]_vars

(***************************************************************************)
(* A sketch that fills a Message: it adds bindings, more of them than the  *)
(* list takes.                                                             *)
(***************************************************************************)

\* The largest number of Message::add calls on one Message.
MaxAdds == 8

\* Message::add(oid, value), also when the list is full.
AddBinding ==
    /\ msg.held = "own" /\ Len(added) < MaxAdds
    /\ \E value \in {nullptr, IntegerBER(-200)} :
          SetAll(MessageAdd(msg, sysName, value), asked, Append(added, value))

NextFill ==
    \/ Begin
    \/ OnMessage
    \/ NewMessage
    \/ AddBinding

SpecFill == Init /\ [][NextFill]_vars

(***************************************************************************)
(* A sketch that notifies: it makes an InformRequest or an SNMPv2Trap,     *)
(* calls setSNMPTrapOID and sends the Message.                             *)
(***************************************************************************)

\* Message::OID.
sysUpTime == << 1, 3, 6, 1, 2, 1, 1, 3, 0 >>
snmpTrapOID == << 1, 3, 6, 1, 6, 3, 1, 1, 4, 1, 0 >>
coldStart == << 1, 3, 6, 1, 6, 3, 1, 1, 5, 1 >>
warmStart == << 1, 3, 6, 1, 6, 3, 1, 1, 5, 2 >>

Notifications == {TInformRequest, TSNMPv2Trap}

\* new Message(Version::V2C, community, type) for a notification.
NewNotification ==
    /\ pc = "run" /\ ~made /\ packets = 0 /\ snmp.udp
    /\ \E community \in {public, <<>>}, type \in Notifications, id \in RandomIDs :
          msg' = Message(V2C, community, type, id)
    /\ made' = TRUE
    /\ UNCHANGED << pc, snmp, orig, asked, added, builds, builtAt, size, sent,
                    sentBuffer, inbox, packets, rx, codecVars >>

\* Message::setSNMPTrapOID; t is what millis() / 10 returns in it.
SetSNMPTrapOID ==
    /\ msg.type \in Notifications /\ msg.held = "own" /\ msg.varBindList.bers = <<>>
    /\ \E t \in Times, name \in {coldStart, warmStart} :
          SetAll(MessageAdd(MessageAdd(msg, sysUpTime, TimeTicksBER(t)),
                            snmpTrapOID, ObjectIdentifierBER(name)),
                 asked,
                 added \o << TimeTicksBER(t), ObjectIdentifierBER(name) >>)

NextNotify ==
    \/ Begin
    \/ NewNotification
    \/ SetRequestID
    \/ SetSNMPTrapOID
    \/ GetSize
    \/ Send

SpecNotify == Init /\ [][NextNotify]_vars

(***************************************************************************)
(* User code that works on one Type: it makes a Type from a flag and a tag *)
(* number, encodes it, and decodes the bytes into another Type.            *)
(***************************************************************************)

\* Every tag number up to MaxTag is tried.
MaxTag == 40

\* The flags: a class and a form.
Flags == {class + form : class \in {0, 64, 128, 192}, form \in {0, 32}}

\* The tag numbers: the short form, the first long-form numbers, and the
\* numbers around each change of the number of 7-bit groups.
TagNumbers ==
    0..MaxTag \cup {127, 128, 16383, 16384, 2097151, 2097152, 268435455,
                    268435456, 2147483647}

\* Type type(flag, tag).
NewType ==
    /\ \E flag \in Flags, tag \in TagNumbers :
          typ' = [NoTyp EXCEPT !.flag = flag, !.number = tag,
                               !.T = setFlagTag(flag, tag)]
    /\ UNCHANGED << pc, snmp, sketchVars, inbox, packets, rx, objectVars, lng, ber, measured, out >>

\* type.encode(stream).
EncodeType ==
    /\ typ.T # NoType /\ typ.bytes = <<>>
    /\ typ' = [typ EXCEPT !.bytes = TypeEncode(typ.T)]
    /\ UNCHANGED << pc, snmp, sketchVars, inbox, packets, rx, objectVars, lng, ber, measured, out >>

\* Type other; other.decode(stream) on the bytes written.
DecodeType ==
    /\ typ.bytes # <<>> /\ typ.back = NoType
    /\ typ' = [typ EXCEPT !.back = TypeDecodeFields(typ.bytes, 1)]
    /\ UNCHANGED << pc, snmp, sketchVars, inbox, packets, rx, objectVars, lng, ber, measured, out >>

NextTag ==
    \/ NewType
    \/ EncodeType
    \/ DecodeType

SpecTag == Init /\ [][NextTag]_vars

(***************************************************************************)
(* User code that works on one numeric object: it makes an IntegerBER, an  *)
(* unsigned object (Counter32BER, Gauge32BER, TimeTicksBER, Counter64BER)  *)
(* or an OpaqueBER around an OpaqueFloatBER, encodes it, and decodes the   *)
(* bytes into the object that BER::create makes for the type.              *)
(*                                                                         *)
(* The value of an unsigned object is held as the register of its type T:  *)
(* the sizeof(T) bytes of the value, most significant first, so that the   *)
(* 32-bit and 64-bit values with the top bit set are values of the model.  *)
(***************************************************************************)

\* Every int32_t from -MaxSmall to MaxSmall is tried.
MaxSmall == 300

\* The int32_t values: the small ones, and the values around each change
\* of the number of payload bytes.
SignedValues ==
    -MaxSmall..MaxSmall \cup
    {32767, 32768, 65535, 65536, 8388607, 8388608, 16777215, 16777216,
     2147483647, -32768, -32769, -65536, -65537, -8388608, -8388609,
     -16777216, -16777217, -2147483647, -2147483647 - 1}

\* The bit patterns of a float, as 32-bit residues: 0.0, the smallest
\* denormal, 1.0, 25.589001, infinity, a NaN, the largest pattern of a
\* positive float, -0.0, -25.589001, and the pattern of all ones; and the
\* patterns with one byte set.
Patterns ==
    {0, 1, 1065353216, 1103935046, 2139095040, 2143289344, 2147483647,
     -2147483647 - 1, -1043548602, -1}
    \cup {b * m : b \in {1, 127}, m \in {1, 256, 65536, 16777216}}
    \cup {128 * m : m \in {1, 256, 65536}}
    \cup {255 * m : m \in {1, 256, 65536}}

\* The bytes the registers are made of.
Digits == {0, 1, 127, 128, 255}

\* The unsigned classes: the type and sizeof(T).
Unsigned ==
    {[type |-> TCounter32, width |-> 4], [type |-> TGauge32, width |-> 4],
     [type |-> TTimeTicks, width |-> 4], [type |-> TCounter64, width |-> 8]}

\* The values of a uint32_t and of a uint64_t that are tried.
Registers(width) ==
    IF width = 4 THEN [1..4 -> Digits]
    ELSE {hi \o lo : hi \in [1..4 -> {0, 128, 255}], lo \in [1..4 -> {0, 127, 255}]}

\* value >>= 8 on the register of an unsigned T.
ShrReg(reg) == << 0 >> \o SubSeq(reg, 1, Len(reg) - 1)

\* BER::setPositive<T> on the register of an unsigned T:
\* do { carry = value & 0x80; value >>= 8; length++; } while (value | carry).
RECURSIVE setPositiveReg(_)
setPositiveReg(reg) ==
    IF reg[Len(reg)] < 128 /\ \A i \in 1..(Len(reg) - 1) : reg[i] = 0 THEN 1
    ELSE 1 + setPositiveReg(ShrReg(reg))

\* value >> (8 * sizeof(T)): the shift count is the width of T, which the
\* language leaves undefined.  The byte written is 0 where the shifter
\* shifts every bit out, the low byte of value where it takes the count
\* modulo the width, and the low byte of the high word where a 64-bit
\* shift is made of two 32-bit shifts that take the count modulo 32.
OverShift(reg) ==
    {0, reg[Len(reg)]} \cup (IF Len(reg) = 8 THEN {reg[4]} ELSE {})

\* The payload loop of BER::encodeNumeric<T> on a register:
\* stream.write(value >> ((_length - index - 1) << 3)), with u the byte of
\* an undefined shift.
NumericBytesReg(reg, length, u) ==
    [i \in 1..length |->
        IF length - i < Len(reg) THEN reg[Len(reg) - (length - i)] ELSE u]

\* The loop of BER::decodeNumeric<T> for an unsigned T on a register:
\* *value = 0, then *value <<= 8; *value |= stream.read() for each byte.
RECURSIVE NumericLoopReg(_, _, _, _)
NumericLoopReg(s, p, n, reg) ==
    IF n = 0 THEN reg
    ELSE NumericLoopReg(s, p + 1, n - 1,
            Tail(reg) \o << IF Read(s, p) = -1 THEN 255 ELSE Read(s, p) >>)

\* new IntegerBER(value).
NewInteger ==
    /\ num.k = "none"
    /\ \E value \in SignedValues :
          num' = [NoNum EXCEPT !.k = "Integer", !.type = TInteger, !.value = value,
                               !.length = IntegerBER(value).len]
    /\ UNCHANGED << pc, snmp, sketchVars, inbox, packets, rx, lng, ber, measured, out, typ,
                    oid, array, wire >>

\* new OpaqueBER(new OpaqueFloatBER(value)), with value the float of a bit
\* pattern.
NewOpaqueFloat ==
    /\ num.k = "none"
    /\ \E value \in Patterns :
          num' = [NoNum EXCEPT !.k = "OpaqueFloat", !.type = TOpaque, !.value = value,
                               !.length = OpaqueBER(OpaqueFloatBER(value)).len]
    /\ UNCHANGED << pc, snmp, sketchVars, inbox, packets, rx, lng, ber, measured, out, typ,
                    oid, array, wire >>

\* new Counter32BER(value), Gauge32BER, TimeTicksBER, Counter64BER:
\* UIntegerBER<T>::setValue.
NewUInteger ==
    /\ num.k = "none"
    /\ \E u \in Unsigned : \E reg \in Registers(u.width) :
          num' = [NoNum EXCEPT !.k = "UInteger", !.type = u.type, !.reg = reg,
                               !.length = setPositiveReg(reg)]
    /\ UNCHANGED << pc, snmp, sketchVars, inbox, packets, rx, lng, ber, measured, out, typ,
                    oid, array, wire >>

\* IntegerBER::encode(Stream&) and UIntegerBER<T>::encode(Stream&).
EncodeNumber ==
    /\ num.k # "none" /\ num.bytes = <<>>
    /\ \/ /\ num.k = "Integer"
          /\ num' = [num EXCEPT !.bytes = Encode(IntegerBER(num.value))]
       \/ /\ num.k = "OpaqueFloat"
          /\ num' = [num EXCEPT !.bytes = Encode(OpaqueBER(OpaqueFloatBER(num.value)))]
       \/ /\ num.k = "UInteger"
          /\ \E u \in OverShift(num.reg) :
                num' = [num EXCEPT !.bytes =
                           TypeEncode(setType(num.type))
                           \o LengthEncode(num.length, LengthSize(num.length))
                           \o NumericBytesReg(num.reg, num.length, u)]
    /\ UNCHANGED << pc, snmp, sketchVars, inbox, packets, rx, lng, ber, measured, out, typ,
                    oid, array, wire >>

\* BER *other = create(type); other->decode(stream, Flag::Typed) on the
\* bytes written, after type.decode(stream).
DecodeNumber ==
    /\ num.bytes # <<>> /\ ~num.decoded
    /\ \/ /\ num.k = "Integer"
          /\ \E r \in {DecodeTyped(create(TypeDecode(num.bytes, 1).type), num.bytes,
                                   TypeDecode(num.bytes, 1).p, NoObs)} :
                num' = [num EXCEPT !.decoded = TRUE, !.back = r.b.val[1]]
       \/ /\ num.k = "OpaqueFloat"
          /\ \E r \in {DecodeTyped(create(TypeDecode(num.bytes, 1).type), num.bytes,
                                   TypeDecode(num.bytes, 1).p, NoObs)} :
                num' = [num EXCEPT !.decoded = TRUE, !.other = r.b, !.obs = r.o]
       \/ /\ num.k = "UInteger"
          /\ \E l \in {LengthDecode(num.bytes, TypeDecode(num.bytes, 1).p)} :
                num' = [num EXCEPT !.decoded = TRUE,
                           !.backReg = NumericLoopReg(num.bytes, l.p, l.length,
                                                      [i \in 1..Len(num.reg) |-> 0])]
    /\ UNCHANGED << pc, snmp, sketchVars, inbox, packets, rx, lng, ber, measured, out, typ,
                    oid, array, wire >>

NextNumeric ==
    \/ NewInteger
    \/ NewOpaqueFloat
    \/ NewUInteger
    \/ EncodeNumber
    \/ DecodeNumber

SpecNumeric == Init /\ [][NextNumeric]_vars

(***************************************************************************)
(* User code that works on one ObjectIdentifierBER: it makes the object    *)
(* from a dotted string, may set another string, encodes it, and decodes   *)
(* the bytes into the object that BER::create makes for the type.  A       *)
(* string is the sequence of its characters.                               *)
(***************************************************************************)
DigitChars == << "0", "1", "2", "3", "4", "5", "6", "7", "8", "9" >>

\* String(n) for an unsigned n: its decimal digits.
RECURSIVE StringOf(_)
StringOf(n) ==
    IF n < 10 THEN << DigitChars[n + 1] >>
    ELSE StringOf(n \div 10) \o << DigitChars[(n % 10) + 1] >>

\* The _value ObjectIdentifierBER::decode builds from the sub-identifiers
\* it reads: String(a) + "." + String(b), then += "." + String(sub).
RECURSIVE Dotted(_)
Dotted(val) ==
    IF val = <<>> THEN <<>>
    ELSE IF Len(val) = 1 THEN StringOf(val[1])
    ELSE Dotted(SubSeq(val, 1, Len(val) - 1)) \o << "." >> \o StringOf(val[Len(val)])

\* atoi / atol on the characters from position i: the digits up to the
\* first character that is none.
RECURSIVE atoi(_, _, _)
atoi(text, i, n) ==
    IF i > Len(text) \/ text[i] = "." THEN n
    ELSE atoi(text, i + 1,
              (n * 10) + (CHOOSE d \in 0..9 : DigitChars[d + 1] = text[i]))

\* strchr(token, '.'): the position of the next dot, 0 for NULL.
RECURSIVE strchr(_, _)
strchr(text, i) ==
    IF i > Len(text) THEN 0
    ELSE IF text[i] = "." THEN i
    ELSE strchr(text, i + 1)

\* The while (token != NULL) loop of setValue and of encode: the number
\* read at each token.  token is at the start of the string for index 0
\* and at a dot, which ++token skips, afterwards.
RECURSIVE Tokens(_, _, _)
Tokens(text, token, index) ==
    IF token = 0 THEN <<>>
    ELSE << atoi(text, IF index = 0 THEN token ELSE token + 1, 0) >>
         \o Tokens(text, strchr(text, IF index = 0 THEN token ELSE token + 1),
                   index + 1)

\* The number of setValue calls on the object.
MaxSets == 2

ifOperStatus == << 1, 3, 6, 1, 2, 1, 2, 2, 1, 8, 4096 >>

\* The sub-identifiers after the second: none, the values around each
\* change of the number of 7-bit groups, and the tails of known names.
Arcs ==
    {<<>>, << 0 >>, << 127 >>, << 128 >>, << 16383, 16384 >>,
     << 2097151, 2097152 >>, << 268435455, 268435456 >>, << 2147483647 >>,
     SubSeq(enterpriseOID, 3, 7), SubSeq(ifOperStatus, 3, 11)}

\* The strings user code gives: first sub-identifier 0, 1 or 2, the second
\* below 40, or any after a first of 2.
OIDTexts ==
    {Dotted(<< a, b >> \o rest) :
        a \in 0..2, b \in {0, 3, 39}, rest \in Arcs}
    \cup {Dotted(<< 2, b >> \o rest) : b \in {40, 999}, rest \in Arcs}

\* new ObjectIdentifierBER(value).
NewOID ==
    /\ oid.b = nullptr
    /\ \E text \in OIDTexts :
          oid' = [NoOID EXCEPT !.texts = << text >>,
                               !.b = ObjectIdentifierBER(Tokens(text, 1, 0))]
    /\ UNCHANGED << pc, snmp, sketchVars, inbox, packets, rx, lng, ber, measured, out, typ,
                    num, array, wire >>

\* ObjectIdentifierBER::setValue(value) on the object.
SetOIDValue ==
    /\ oid.b # nullptr /\ oid.bytes = <<>> /\ Len(oid.texts) < MaxSets
    /\ \E text \in OIDTexts :
          oid' = [oid EXCEPT !.texts = Append(oid.texts, text),
                             !.b = OIDsetValue(oid.b, Tokens(text, 1, 0))]
    /\ UNCHANGED << pc, snmp, sketchVars, inbox, packets, rx, lng, ber, measured, out, typ,
                    num, array, wire >>

\* ObjectIdentifierBER::encode(Stream&).
EncodeOID ==
    /\ oid.b # nullptr /\ oid.bytes = <<>>
    /\ oid' = [oid EXCEPT !.bytes = Encode(oid.b)]
    /\ UNCHANGED << pc, snmp, sketchVars, inbox, packets, rx, lng, ber, measured, out, typ,
                    num, array, wire >>

\* BER *other = create(type); other->decode(stream, Flag::Typed) on the
\* bytes written, after type.decode(stream).
DecodeOID ==
    /\ oid.bytes # <<>> /\ ~oid.decoded
    /\ \E r \in {DecodeTyped(create(TypeDecode(oid.bytes, 1).type), oid.bytes,
                             TypeDecode(oid.bytes, 1).p, NoObs)} :
          oid' = [oid EXCEPT !.decoded = TRUE, !.hang = r.o.hang,
                             !.back = Dotted(r.b.val)]
    /\ UNCHANGED << pc, snmp, sketchVars, inbox, packets, rx, lng, ber, measured, out, typ,
                    num, array, wire >>

NextOID ==
    \/ NewOID
    \/ SetOIDValue
    \/ EncodeOID
    \/ DecodeOID

SpecOID == Init /\ [][NextOID]_vars

(***************************************************************************)
(* Code of a class that may call the protected add and remove of an        *)
(* ArrayBER (Message, VarBind, VarBindList, a subclass): it makes a        *)
(* SequenceBER or an ArrayBER<2>, and adds and removes children in any     *)
(* order.  No child is changed after it was made.                          *)
(***************************************************************************)

\* The children: objects of different sizes, one of them with a length in
\* the long form, one of them a container.
Children ==
    {NullBER(TNull), IntegerBER(-200), OctetStringBER(Payload(LongPayload)),
     VarBind(sysName, IntegerBER(7))}

\* new SequenceBER(), new ArrayBER<2>(Type::Sequence).
NewArray ==
    /\ array.b = nullptr
    /\ \E cap \in {VARBIND_CAPACITY, SNMP_CAPACITY} :
          array' = [NoArr EXCEPT !.b = ArrayBER(TSequence, cap)]
    /\ UNCHANGED << pc, snmp, sketchVars, inbox, packets, rx, lng, ber, measured, out, typ,
                    num, oid, wire >>

\* array->add(ber).
AddChild ==
    /\ array.b # nullptr
    /\ \E child \in Children :
          array' = [b |-> add(array.b, child), last |-> "add", child |-> child,
                  before |-> array.b]
    /\ UNCHANGED << pc, snmp, sketchVars, inbox, packets, rx, lng, ber, measured, out, typ,
                    num, oid, wire >>

\* array->remove().
RemoveChild ==
    /\ array.b # nullptr
    /\ array' = [b |-> remove(array.b), last |-> "remove",
               child |-> IF Len(array.b.bers) > 0 THEN array.b.bers[Len(array.b.bers)]
                         ELSE nullptr,
               before |-> array.b]
    /\ UNCHANGED << pc, snmp, sketchVars, inbox, packets, rx, lng, ber, measured, out, typ,
                    num, oid, wire >>

NextArray ==
    \/ NewArray
    \/ AddChild
    \/ RemoveChild

SpecArray == Init /\ [][NextArray]_vars

(***************************************************************************)
(* Message::parse of datagrams whose INTEGER fields take any 32-bit value. *)
(***************************************************************************)

\* Values a peer can put in an INTEGER field: around the ends of the 8-bit
\* range, around its multiples, and the ends of the 32-bit range.
WireValues ==
    { 0, 1, 127, 128, 255, 256, 257, 511, 65535, 65541, -1, -128, -129,
      -256, 2147483647, -2147483647 - 1 }

\* Values of the request-id field.
WireIDs == { 0, 41, 256, -1, 2147483647, -2147483647 - 1 }

\* The pdu types whose second and third fields are error-status and
\* error-index, or non-repeaters and max-repetitions.
GenericTypes == { TGetRequest, TGetResponse, TGetBulkRequest }

\* The datagram of a peer: a message of the given pdu type with the given
\* fields and one binding.
FieldDatagram(type, a, b, c) ==
    Encode(AddAll(SequenceBER(TSequence),
           << IntegerBER(V2C), OctetStringBER(public),
              AddAll(SequenceBER(type),
                     IF type = TTrap
                     THEN << ObjectIdentifierBER(sysName),
                             IPAddressBER(<< 192, 168, 1, 2 >>),
                             IntegerBER(b), IntegerBER(c), TimeTicksBER(a),
                             OneBinding(IntegerBER(5)) >>
                     ELSE << IntegerBER(a), IntegerBER(b), IntegerBER(c),
                             OneBinding(IntegerBER(5)) >>, 1) >>, 1))

\* A datagram with chosen fields arrives.  Of a Trap, a is the time stamp,
\* b the generic trap and c the specific trap.
InjectFields ==
    /\ pc = "run" /\ packets < MaxPackets /\ inbox = NoPacket /\ ~made
    /\ \E type \in GenericTypes \cup { TTrap }, b \in WireValues, c \in WireValues :
       \E a \in IF type = TTrap THEN { 100 } ELSE WireIDs :
          /\ inbox' = [pkt |-> FieldDatagram(type, a, b, c), echo |-> FALSE]
          /\ wire' = [type |-> type, a |-> a, b |-> b, c |-> c]
    /\ packets' = packets + 1
    /\ UNCHANGED << pc, snmp, sketchVars, rx, lng, ber, measured, out, typ,
                    num, oid, array >>

NextParse ==
    \/ Begin
    \/ OnMessage
    \/ InjectFields
    \/ Loop

SpecParse == Init /\ [][NextParse]_vars

(***************************************************************************)
(* begin(), onMessage(), loop() and datagram arrivals in any order.        *)
(***************************************************************************)

\* SNMP::loop while _udp is nullptr: _udp->parsePacket() is a virtual call
\* through a null pointer.  The call crashes, or returns as if no datagram
\* had arrived.
LoopUnset ==
    /\ pc = "run" /\ ~snmp.udp
    /\ \E crashed \in BOOLEAN :
          IF crashed
          THEN /\ rx' = [NoRx EXCEPT !.fault = TRUE]
               /\ pc' = "fault"
          ELSE UNCHANGED << rx, pc >>
    /\ UNCHANGED << snmp, sketchVars, inbox, packets, codecVars >>

NextLoop ==
    \/ Begin
    \/ OnMessage
    \/ Inject
    \/ Loop
    \/ LoopUnset

SpecLoop == Init /\ [][NextLoop]_vars

(***************************************************************************)
(* The claims                                                              *)
(***************************************************************************)

\* The sketch sent its Message once, without asking for its size before:
\* sent[1] is the encoding of a well-formed Message.
SentOnce == Len(sent) >= 1 /\ size = -1

\* loop() has received the first datagram the sketch sent.
Echoed == rx.ran /\ rx.echo /\ SentOnce /\ rx.pkt = sent[1]

\* The time stamp the sketch's build put in its Trap pdu.
SentStamp == msg.seq.bers[3].bers[5].val[1]

\* C1: round trip.  When loop() receives the datagram send() wrote for a
\* well-formed Message, the handler gets a Message with the same version,
\* community, pdu type, request-id, error/bulk/trap fields and the same
\* bindings in the same order, whatever the encoded size.
RoundTrip ==
    (Echoed /\ builds = 1) =>
        /\ rx.handled
        /\ Fields(rx.m) = Fields(orig)
        /\ orig.type = TTrap => rx.m.timeStamp = SentStamp
        /\ Bindings(rx.m.varBindList) = Bindings(orig.varBindList)

\* A GetRequest with a binding of 128 bytes or more comes back and loop()
\* never returns from its decode.
LongEchoHangs ==
    /\ Echoed /\ builds = 1 /\ orig.type = TGetRequest
    /\ Len(sent[1]) >= 128 /\ rx.hang

\* C2: size accuracy.  After getSize(true), encode writes as many bytes as
\* getSize(true) returned, for primitive and constructed objects.
SizeAccuracy ==
    (ber # nullptr /\ measured # -1 /\ out # <<>>) => Len(out) = measured

\* An OctetString of 128 bytes: encode writes one byte more than
\* getSize(true) returned.
LongOctetStringOneMore ==
    /\ ber # nullptr /\ ber.k = "OctetString" /\ ber.len = 128
    /\ measured = 131 /\ Len(out) = 132

\* C3: encoding is repeatable.  A second send of a Message that was sent
\* succeeds and writes the bytes the first send wrote.
Repeatable ==
    (SentOnce /\ builds = 2) => (Len(sent) = 2 /\ sent[2] = sent[1])

\* A GetRequest is sent twice: the second send crashes, or writes other
\* bytes than the first.
SecondSendDiffers ==
    /\ SentOnce /\ builds = 2 /\ orig.type = TGetRequest
    /\ (Len(sent) < 2 \/ sent[2] # sent[1])

\* C4: the stream path and the buffer path write the same datagram for a
\* Message, whatever its length.
StreamEqualsBuffer ==
    SentOnce => sent[1] = sentBuffer[1]

\* A datagram of 128 bytes or more: the stream holds other bytes than the
\* buffer.
LongDatagramDiffers ==
    SentOnce /\ Len(sentBuffer[1]) >= 128 /\ sent[1] # sentBuffer[1]

\* The number of bytes that hold a length, and its big-endian bytes.
RECURSIVE MinimalBytes(_)
MinimalBytes(length) == IF length < 256 THEN 1 ELSE 1 + MinimalBytes(length \div 256)

BigEndian(length, n) == [i \in 1..n |-> Shr8(length, n - i) % 256]

\* C5: length canonicalization.  The length encoder writes the byte L when
\* L < 128, and otherwise 0x80|N followed by the N big-endian bytes of L,
\* N the minimal number of bytes that hold L.
CanonicalLength ==
    (ber = nullptr /\ out # <<>>) =>
        out = IF lng.length < 128 THEN << lng.length >>
              ELSE << 128 + MinimalBytes(lng.length) >>
                   \o BigEndian(lng.length, MinimalBytes(lng.length))

\* The length 128 is written as 0x82 0x00 0x80.
Length128LeadingZero ==
    ber = nullptr /\ lng.length = 128 /\ out = << 130, 0, 128 >>

\* The datagram loop() read did not parse: an unknown tag, an overflow of a
\* declared length, an underflow of the datagram, or a pdu without the
\* expected children.
ParseFailed ==
    \/ rx.obs.unknown > 0 \/ rx.obs.wrapped \/ rx.obs.under \/ rx.obs.hang
    \/ ~rx.defined \/ rx.m.held # "own"

\* C6: parsing is all-or-nothing at loop().  The handler is not invoked
\* for a datagram that fails to parse.
AllOrNothing ==
    (rx.ran /\ ParseFailed) => ~rx.handled

\* The handler is invoked for a datagram with an unknown tag in its pdu.
HandledUnparsed ==
    rx.ran /\ rx.pkt = UnknownUncounted /\ ParseFailed /\ rx.handled

\* C7: decoding terminates on every finite input.  Every decode loop()
\* starts returns, also when a tag or a value runs past the end of the
\* datagram.
DecodeTerminates ==
    rx.ran => ~rx.hang

\* A datagram that ends before its declared length: loop() never returns.
TruncatedHangs ==
    rx.ran /\ rx.pkt = Truncated /\ rx.hang /\ pc = "hung"

\* C8: exclusive ownership.  After a build the list belongs to the pdu alone;
\* after a parse it belongs to the Message alone and no object is left
\* without owner, whatever the number of children of the pdu; delete
\* releases the list once.
ExclusiveOwnership ==
    /\ (made /\ builds = 1) => (msg.held = "null" /\ msg.leaked = 0)
    /\ (rx.ran /\ ~rx.hang /\ rx.defined) => (rx.m.held = "own" /\ rx.m.leaked = 0)
    /\ rx.handled => rx.deleted = "once"

\* A pdu of five children: the Message holds pdu[3], which the pdu holds
\* too, and the child remove() detached belongs to nobody.
FiveChildrenShared ==
    /\ rx.ran /\ rx.pkt = FiveChildren /\ rx.defined
    /\ rx.m.held = "alias" /\ rx.m.leaked = 1

\* C10: unknown tags are rejected.  Once a child tag matches no variant,
\* the decode stops: nothing more is read from the datagram and no Message
\* reaches the handler.
UnknownTagRejected ==
    (rx.ran /\ rx.obs.unknown > 0) => (~rx.obs.readOn /\ ~rx.handled)

\* After an unknown tag in the pdu the decode reads on and the handler gets
\* the Message.
UnknownTagSkipped ==
    /\ rx.ran /\ rx.pkt = UnknownUncounted /\ rx.obs.unknown = 1
    /\ rx.obs.readOn /\ rx.handled


\* What the datagram rx.pkt holds: the Message a parse into a new Message
\* gives.
Decoded ==
    parse([Message(V1, NullString, TGetRequest, 0)
              EXCEPT !.seq = Decode(SequenceBER(TSequence), rx.pkt).b])

RegionEnd(s) ==
    LengthDecode(s, TypeDecode(s, 1).p).p + LengthDecode(s, TypeDecode(s, 1).p).length

\* C11: constructed-region bounds are enforced.  When the children of a
\* constructed value of a peer's datagram take more bytes than its declared
\* length, the decode fails and returns: loop() comes back without calling
\* the handler, and nothing is read after the overshooting child.
RegionBounds ==
    (rx.ran /\ ~rx.echo /\ rx.obs.wrapped) =>
        (~rx.hang /\ ~rx.fault /\ ~rx.handled /\ rx.end <= RegionEnd(rx.pkt))

\* A SEQUENCE that declares three bytes and holds an OctetString of seven:
\* the remaining length wraps, the loop asks for another child after the
\* last byte of the datagram and never returns.
OvershootReadsOn ==
    /\ rx.ran /\ rx.pkt = Overshoot /\ rx.obs.wrapped
    /\ rx.end > RegionEnd(Overshoot) /\ rx.hang /\ pc = "hung"

\* C12: no silent truncation on parse.  When the list of a datagram carries
\* more bindings than the container's capacity, loop() returns, and the
\* handler gets a Message that holds all of them or is not called at all.
NoSilentTruncation ==
    (rx.ran /\ rx.pkt \in OverCapacity) =>
        /\ ~rx.hang
        /\ rx.handled => Len(rx.m.varBindList.bers) = SNMP_CAPACITY + 1

\* Seven bindings arrive, followed by the bytes the pdu's loop still asks
\* for: the handler gets a Message with six bindings, the seventh was
\* decoded and dropped.
SeventhBindingMissing ==
    /\ rx.ran /\ rx.pkt = SevenBindingsPadded /\ rx.handled
    /\ rx.obs.dropped = 1 /\ rx.obs.unknown = 0
    /\ Len(rx.m.varBindList.bers) = SNMP_CAPACITY
    /\ \A i \in 1..SNMP_CAPACITY : rx.m.varBindList.bers[i].bers[2].k = "Null"

\* C13: the indefinite length form is rejected.  A datagram with a length
\* field whose first byte is 0x80 fails to decode: loop() returns without
\* calling the handler, and no object gets a length from that field.
IndefiniteRejected ==
    (rx.ran /\ rx.pkt = IndefiniteLength) => (~rx.hang /\ ~rx.handled)

\* The length byte 0x80 is read as the length 0: the decode finds nothing
\* wrong and the handler gets a Message whose binding is an empty
\* OctetString.
IndefiniteReadAsZero ==
    /\ rx.ran /\ rx.pkt = IndefiniteLength /\ rx.handled /\ rx.obs = NoObs
    /\ LengthDecode(rx.pkt, Len(rx.pkt)) = [length |-> 0, size |-> 1, p |-> Len(rx.pkt) + 1]
    /\ Bindings(rx.m.varBindList)
         = << << sysName, ValueOf(OctetStringBER(<<>>)) >> >>

\* The class and the type of each child of an array.
Shapes(arr) == [i \in 1..Len(arr.bers) |-> << arr.bers[i].k, arr.bers[i].type >>]

\* The children the pdu of a built Message has, by pdu type.
PDULayout(type) ==
    IF type = TTrap
    THEN << << "ObjectIdentifier", TObjectIdentifier >>, << "IPAddress", TIPAddress >>,
            << "Integer", TInteger >>, << "Integer", TInteger >>,
            << "UInteger", TTimeTicks >>, << "Array", TSequence >> >>
    ELSE << << "Integer", TInteger >>, << "Integer", TInteger >>,
            << "Integer", TInteger >>, << "Array", TSequence >> >>

\* C14: message layout.  Whenever build() has run on a Message, the outer
\* SEQUENCE has exactly the children Integer version, OctetString community
\* and a pdu tagged with the pdu type, and the pdu has the children of its
\* type in order: Trap, GetBulkRequest, or any other type.
MessageLayout ==
    (made /\ builds >= 1) =>
        /\ Shapes(msg.seq)
             = << << "Integer", TInteger >>, << "OctetString", TOctetString >>,
                  << "Array", orig.type >> >>
        /\ Shapes(msg.seq.bers[3]) = PDULayout(orig.type)

\* build() has run twice on a GetRequest and has returned: the outer SEQUENCE
\* has six children, a second version, community and pdu after the first.
SecondBuildAppends ==
    /\ made /\ builds = 2 /\ pc = "run" /\ orig.type = TGetRequest
    /\ Len(msg.seq.bers) = SNMP_CAPACITY
    /\ Shapes(msg.seq)[SNMP_CAPACITY] = << "Array", TGetRequest >>

\* The status a Message of a version holds after setError(s, i), as the
\* mapping table states it.
Mapped(version, s) ==
    IF version = V2C THEN s
    ELSE IF s \in {WrongValue, WrongEncoding, WrongType, WrongLength, InconsistentValue}
    THEN BadValue
    ELSE IF s \in {NoAccess, NotWritable, NoCreation, InconsistentName, AuthorizationError}
    THEN NoSuchName
    ELSE IF s \in {ResourceUnavailable, CommitFailed, UndoFailed}
    THEN GenErr
    ELSE s

\* C15: error mapping.  After setError(s, i) a V1 Message holds BadValue,
\* NoSuchName or GenErr for the codes of the three groups and s for every
\* other code, a V2C Message holds s, and both hold the index i.
ErrorMapping ==
    (made /\ asked # NoCall) =>
        /\ msg.status = Mapped(msg.version, asked.status)
        /\ msg.index = asked.index

\* setError(WrongValue, 2) on a V1 Message: it holds BadValue and 2.
WrongValueIsBadValue ==
    /\ made /\ msg.version = V1 /\ asked = [status |-> WrongValue, index |-> 2]
    /\ msg.status = BadValue /\ msg.index = 2

\* C16: V1 error closure.  After any sequence of setError calls with codes
\* of the 19-member table, the status a V1 Message holds is in 0..5.
V1ErrorClosure ==
    (made /\ msg.version = V1 /\ asked # NoCall /\ asked.status \in ErrorTable) =>
        msg.status \in NoError..GenErr

\* setError(InconsistentName, 0) on a V1 Message: it holds NoSuchName.
LastCodeMapped ==
    /\ made /\ msg.version = V1 /\ asked.status = InconsistentName
    /\ msg.status = NoSuchName

\* Every binding of a list is a SEQUENCE whose child 0 is an
\* ObjectIdentifier and whose child 1 is present.
Shaped(list) ==
    \A i \in 1..Len(list.bers) :
        /\ list.bers[i].k = "Array"
        /\ Len(list.bers[i].bers) >= VARBIND_CAPACITY
        /\ list.bers[i].bers[1].k = "ObjectIdentifier"

\* C17: VarBind shape invariant.  Every VarBind of the list a Message holds,
\* added by the sketch or materialised by a parse, has an ObjectIdentifier
\* as child 0 and has a child 1; a VarBind made without a value has a Null.
VarBindShape ==
    /\ (made /\ msg.held = "own") => Shaped(msg.varBindList)
    /\ (rx.handled /\ rx.defined /\ rx.m.held = "own") => Shaped(rx.m.varBindList)
    /\ VarBind(sysName, nullptr).bers[VARBIND_CAPACITY] = NullBER(TNull)

\* The handler gets a Message whose binding has an Integer as child 0 and
\* no child 1.
BindingWithoutName ==
    /\ rx.handled /\ rx.pkt = ValueOnly /\ rx.defined /\ rx.m.held = "own"
    /\ rx.obs = NoObs
    /\ Shapes(rx.m.varBindList.bers[1]) = << << "Integer", TInteger >> >>

\* The smaller of two numbers.
Min(a, b) == IF a < b THEN a ELSE b

\* C18: fixed-capacity containers.  The list of a Message holds the first
\* children add() was given, in the order of the calls, up to its capacity:
\* a call below the capacity appends after the existing children, a call at
\* the capacity changes neither count, cached length nor children, the
\* count never exceeds the capacity, and equal children are kept apart.
FixedCapacity ==
    (made /\ msg.held = "own") =>
        /\ Len(msg.varBindList.bers) = Min(Len(added), msg.varBindList.cap)
        /\ msg.varBindList.cap = SNMP_CAPACITY
        /\ \A i \in 1..Len(msg.varBindList.bers) :
              msg.varBindList.bers[i] = VarBind(sysName, added[i])
        /\ msg.varBindList.len = SumSizes(msg.varBindList.bers, 1)

\* Eight calls of add, the last two on a full list: the list holds the
\* first six children, among them equal ones.
AddAtCapacityDropped ==
    /\ made /\ msg.held = "own" /\ Len(added) = SNMP_CAPACITY + 2
    /\ Len(msg.varBindList.bers) = SNMP_CAPACITY
    /\ msg.leaked = 2
    /\ added[1] = added[2] /\ added[SNMP_CAPACITY] # added[SNMP_CAPACITY + 1]

\* The sketch called setSNMPTrapOID on its notification before the first
\* build: the first binding is sysUpTime.0.
Notified ==
    /\ made /\ builds >= 1 /\ orig.type \in Notifications
    /\ Len(orig.varBindList.bers) = 2
    /\ orig.varBindList.bers[1].bers[1].val = sysUpTime

\* The value of sysUpTime.0 in the pdu the first build made.
BuiltUpTime == msg.seq.bers[3].bers[4].bers[1].bers[2].val[1]

\* C19: for an InformRequest or an SNMPv2Trap, build sets the value of the
\* first binding, sysUpTime.0, to the centisecond count at build time: the
\* encoded time stamp is the time of the build, not the time of the
\* setSNMPTrapOID call.
UpTimeAtBuild ==
    (Notified /\ builds = 1) => BuiltUpTime = builtAt

\* setSNMPTrapOID is called at time 0 and the Message is sent at a later
\* time: the datagram carries the time of the call.
UpTimeOfCall ==
    /\ Notified /\ builds = 1 /\ Len(sent) = 1
    /\ added[1] = TimeTicksBER(0) /\ builtAt > 0
    /\ BuiltUpTime = 0

\* C20: tag round-trip.  For every class, form and tag number, short form
\* or long form with one or more 7-bit groups, the decode of the bytes the
\* encode wrote gives the same class, form and number, and has read all the
\* bytes.
TagRoundTrip ==
    typ.back # NoType =>
        /\ typ.back.class + typ.back.form = typ.flag
        /\ typ.back.tag = typ.number
        /\ typ.back.size = Len(typ.bytes)

\* The tag number 16384 of the private constructed class: three 7-bit
\* groups, written as FF 81 80 00, read back as 16384.
ThreeGroupTagBack ==
    /\ typ.flag = 192 + 32 /\ typ.number = 16384
    /\ typ.bytes = << 255, 129, 128, 0 >>
    /\ typ.back = [class |-> 192, form |-> 32, tag |-> 16384, size |-> 4]

\* The value a payload stands for as a big-endian two's-complement number.
RECURSIVE TwosComplement(_, _)
TwosComplement(payload, i) ==
    IF i = 1 THEN (IF payload[1] >= 128 THEN payload[1] - 256 ELSE payload[1])
    ELSE (TwosComplement(payload, i - 1) * 256) + payload[i]

\* A leading byte that could be left out: 0x00 before a byte with the top
\* bit clear, 0xFF before a byte with the top bit set.
Redundant(payload) ==
    /\ Len(payload) >= 2
    /\ \/ payload[1] = 0 /\ payload[2] < 128
       \/ payload[1] = 255 /\ payload[2] >= 128

\* C21: the encoding of IntegerBER(v) is the type byte 02, the length, and
\* a payload of 1 to 4 bytes that is v in big-endian two's complement and
\* has no redundant leading byte.
MinimalSigned ==
    (num.k = "Integer" /\ num.bytes # <<>>) =>
        LET payload == SubSeq(num.bytes, 3, Len(num.bytes))
        IN  /\ num.bytes[1] = 2
            /\ num.bytes[2] = Len(payload)
            /\ Len(payload) \in 1..4
            /\ TwosComplement(payload, Len(payload)) = num.value
            /\ ~Redundant(payload)

\* The smallest int32_t is encoded on four bytes, -129 on two.
MostNegativeEncoded ==
    /\ num.k = "Integer" /\ num.value = -2147483647 - 1
    /\ num.bytes = << 2, 4, 128, 0, 0, 0 >>

\* The bytes of a register without its leading zero bytes, at least one.
RECURSIVE Stripped(_)
Stripped(reg) ==
    IF Len(reg) > 1 /\ reg[1] = 0 THEN Stripped(Tail(reg)) ELSE reg

\* The payload of an unsigned value: the minimal big-endian bytes, after
\* one 0x00 when their top bit is set.
UnsignedPayload(reg) ==
    IF Stripped(reg)[1] >= 128 THEN << 0 >> \o Stripped(reg) ELSE Stripped(reg)

\* C22: the encoding of a Counter32, Gauge32, TimeTicks or Counter64 of
\* value v is the type byte, the length, and the minimal big-endian bytes
\* of v, preceded by exactly one 0x00 byte when their top bit is set.
UnsignedEncoding ==
    (num.k = "UInteger" /\ num.bytes # <<>>) =>
        num.bytes = << num.type, Len(UnsignedPayload(num.reg)) >>
                    \o UnsignedPayload(num.reg)

\* Counter32(4294967295) written with 0xFF where the 0x00 is expected.
LeadingByteNotZero ==
    /\ num.type = TCounter32 /\ num.reg = << 255, 255, 255, 255 >>
    /\ num.bytes = << 65, 5, 255, 255, 255, 255, 255 >>

\* C23: decoding the encoding of IntegerBER(v) yields v, and decoding the
\* encoding of a Counter32, Gauge32, TimeTicks or Counter64 of value v
\* yields v.
NumericRoundTrip ==
    num.decoded =>
        /\ num.k = "Integer" => num.back = num.value
        /\ num.k = "UInteger" => num.backReg = num.reg

\* -129 is written as FF 7F and read back as -129.
NegativeReadBack ==
    /\ num.k = "Integer" /\ num.value = -129
    /\ num.bytes = << 2, 2, 255, 127 >>
    /\ num.decoded /\ num.back = -129

\* The base-128 groups of n, most significant first, each but the last
\* with the continuation bit.
RECURSIVE Base128(_, _)
Base128(n, more) ==
    (IF n >= 128 THEN Base128(n \div 128, 128) ELSE <<>>) \o << (n % 128) + more >>

\* The payload of an object identifier: one byte 40 * a + b, then the
\* base-128 groups of each later sub-identifier.
RECURSIVE OIDPayload(_, _)
OIDPayload(subs, i) ==
    IF i > Len(subs) THEN <<>>
    ELSE (IF i = 1 THEN <<>>
          ELSE IF i = 2 THEN << (40 * subs[1]) + subs[2] >>
          ELSE Base128(subs[i], 0))
         \o OIDPayload(subs, i + 1)

\* C24: an object made from a dotted string is encoded as the byte
\* 40 * a + b followed by the base-128 groups of the later sub-identifiers,
\* and the decode of those bytes rebuilds the same string.
OIDRoundTrip ==
    (Len(oid.texts) = 1 /\ oid.decoded) =>
        /\ SubSeq(oid.bytes, 3, Len(oid.bytes))
             = OIDPayload(Tokens(oid.texts[1], 1, 0), 1)
        /\ ~oid.hang
        /\ oid.back = oid.texts[1]

\* "2.40" is written as the byte 0x78 and read back as "3.0".
TwoFortyReadAsThreeZero ==
    /\ oid.texts = << << "2", ".", "4", "0" >> >>
    /\ oid.bytes = << 6, 1, 120 >>
    /\ oid.decoded /\ oid.back = << "3", ".", "0" >>

\* C28: after ObjectIdentifierBER::setValue(v) the length of the object is
\* the number of payload bytes of v, whatever the object held before.
OIDLengthFresh ==
    oid.b # nullptr =>
        oid.b.len = Len(OIDPayload(Tokens(oid.texts[Len(oid.texts)], 1, 0), 1))

\* "1.3.0" set twice: the length is 4 where the payload has 2 bytes.
SecondSetValueAdds ==
    /\ oid.texts = << << "1", ".", "3", ".", "0" >>, << "1", ".", "3", ".", "0" >> >>
    /\ oid.b.len = 4
    /\ oid.bytes = << 6, 4, 43, 0 >>

\* C25: an Opaque around OpaqueFloat(p) is encoded as 44 07 9F 78 04 and
\* the four bytes of p, most significant first, and the decode of those
\* bytes yields an Opaque that holds one object, an OpaqueFloat of pattern p.
OpaqueFloatTransport ==
    (num.k = "OpaqueFloat" /\ num.bytes # <<>>) =>
        /\ num.bytes = << 68, 7, 159, 120, 4 >> \o BigEndian(num.value, 4)
        /\ num.decoded =>
              /\ ~num.obs.hang /\ num.obs.dropped = 0 /\ num.obs.unknown = 0
              /\ num.other.k = "Opaque" /\ Len(num.other.bers) = 1
              /\ num.other.bers[1].k = "Float"
              /\ num.other.bers[1].type = TOpaqueFloat
              /\ num.other.bers[1].val = << num.value >>

\* 25.589001 travels as 41 CC B6 46 and is read back.
FloatReadBack ==
    /\ num.k = "OpaqueFloat" /\ num.value = 1103935046
    /\ num.bytes = << 68, 7, 159, 120, 4, 65, 204, 182, 70 >>
    /\ num.decoded /\ num.other.bers[1].val = << 1103935046 >>

\* The sum of the sizes of the children.
RECURSIVE TotalSize(_)
TotalSize(bers) ==
    IF bers = <<>> THEN 0
    ELSE Head(bers).tsz + Head(bers).lsz + Head(bers).len + TotalSize(Tail(bers))

\* C26: add(child) appends the child and increases the cached length by the
\* child's size, remove() detaches the last child and decreases the cached
\* length by that child's size, and after any sequence of add and remove
\* the cached length is the sum of the sizes of the children.
LengthBookkeeping ==
    array.b # nullptr =>
        /\ array.b.len = TotalSize(array.b.bers)
        /\ (array.last = "add" /\ Len(array.before.bers) < array.before.cap) =>
              /\ array.b.bers = Append(array.before.bers, array.child)
              /\ array.b.len = array.before.len + getSize(array.child)
        /\ (array.last = "remove" /\ Len(array.before.bers) > 0) =>
              /\ array.before.bers = Append(array.b.bers, array.child)
              /\ array.b.len = array.before.len - getSize(array.child)

\* A full SequenceBER gives up its last child, an octet string of 131 bytes.
LongChildRemoved ==
    /\ array.last = "remove" /\ Len(array.before.bers) = SNMP_CAPACITY
    /\ array.child = OctetStringBER(Payload(LongPayload))
    /\ Len(array.b.bers) = SNMP_CAPACITY - 1
    /\ array.b.len = array.before.len - 131

\* C27: for a well-formed datagram the decode deducts for each child the
\* bytes it read for it, also when the child is constructed and its length
\* is written in the long form: the loops end, and they end at the end of
\* the declared region, the end of the datagram.
DecodeAccounting ==
    (rx.ran /\ rx.pkt \in {WellFormed, LongFormBinding}) =>
        /\ ~rx.hang /\ ~rx.obs.under /\ ~rx.obs.wrapped
        /\ rx.end = Len(rx.pkt) + 1

\* The binding 30 81 0D is counted as 15 bytes where 16 were read: the
\* list's loop goes on after the end of the datagram.
LongFormUndercounted ==
    /\ rx.ran /\ rx.pkt = LongFormBinding
    /\ rx.hang /\ rx.obs.under

\* C29: of a datagram a peer sent, the parsed Message reports error-status
\* and error-index (non-repeaters and max-repetitions of a GetBulkRequest,
\* read from the same bytes), and generic-trap and specific-trap of a Trap,
\* as the wire value modulo 256, which is the wire value exactly when it
\* lies in 0..255; request-id is reported whole.  While inbox is empty, rx
\* is what loop() made of the datagram wire describes.
Reported(field, v) ==
    /\ field = v % 256
    /\ (field = v) <=> (v \in 0..255)

ParseNarrows ==
    (rx.handled /\ wire # NoWire /\ inbox = NoPacket) =>
        IF wire.type = TTrap
        THEN /\ rx.m.type = TTrap
             /\ Reported(rx.m.genericTrap, wire.b)
             /\ Reported(rx.m.specificTrap, wire.c)
        ELSE /\ rx.m.type = wire.type
             /\ rx.m.requestID = wire.a
             /\ Reported(rx.m.status, wire.b)
             /\ Reported(rx.m.index, wire.c)

\* A GetBulkRequest with non-repeaters 256 and max-repetitions -1 was handed
\* to the handler as 0 and 255, with its request-id of 32 bits whole.
BulkFieldsNarrowed ==
    /\ rx.handled /\ inbox = NoPacket
    /\ wire = [type |-> TGetBulkRequest, a |-> -2147483647 - 1, b |-> 256, c |-> -1]
    /\ rx.m.status = 0 /\ rx.m.index = 255
    /\ rx.m.requestID = -2147483647 - 1

\* C30: receive loop safety.  In every state reached by begin(),
\* onMessage(), loop() and datagram arrivals in any order: the handler was
\* called only for a datagram that arrived, and once (the datagram is
\* consumed by the call of loop() that read it); where loop() reached the
\* handler call, a handler was registered; loop() made no call through a
\* transport that was not set; and the Message was deleted only after the
\* handler returned.
HandlerReached == rx.ran /\ ~rx.hang /\ (rx.handled \/ (rx.fault /\ rx.defined))

LoopSafety ==
    /\ rx.handled => (rx.ran /\ packets >= 1 /\ inbox = NoPacket)
    /\ HandlerReached => snmp.onMessage
    /\ (rx.fault /\ ~rx.ran) => snmp.udp
    /\ rx.deleted # "no" => rx.handled

\* loop() read a well-formed GetRequest while no handler was registered:
\* the decode and parse() returned, and _onMessage, a null pointer, was
\* called.
NullHandlerCalled ==
    /\ rx.ran /\ rx.pkt = WellFormed /\ ~rx.hang /\ rx.defined
    /\ ~snmp.onMessage /\ rx.fault /\ pc = "fault"

=============================================================================
